---- MODULE Spec2Model ----
(***************************************************************************)
(* Mode resolution and synchronisation: the mode resolver and its cache    *)
(* (utils/helpers/app-state.js), the theme application                     *)
(* (utils/helpers/theme.js) and the CEX mode controller (CEXModeManager).  *)
(*                                                                         *)
(* Strings are sequences of one-character strings, so that trim(),         *)
(* toUpperCase(), toLowerCase() and template concatenation are computed    *)
(* character by character.  JavaScript null is the value Null.             *)
(***************************************************************************)
EXTENDS Integers, Sequences, FiniteSets, TLC

\* ------------------------------------------------------------------------
\* Bounds of the model
\* ------------------------------------------------------------------------

\* the most deferred checkURLAndUpdateMode() callbacks pending at one time
MaxPending == 2

\* the most writes to the filter store in one behaviour
MaxWrites == 2

\* ------------------------------------------------------------------------
\* Strings
\* ------------------------------------------------------------------------

Null == <<"null">>

LowerAlphabet == <<"a", "b", "c", "e", "f", "g", "l", "o", "s", "t", "z">>

UpperAlphabet == <<"A", "B", "C", "E", "F", "G", "L", "O", "S", "T", "Z">>

\* the characters of the strings the model converts
Characters ==
    {LowerAlphabet[i] : i \in 1..Len(LowerAlphabet)}
        \cup {UpperAlphabet[i] : i \in 1..Len(UpperAlphabet)}
        \cup {" ", "_"}

\* the upper-case and the lower-case form of each character
UpperOf ==
    [c \in Characters |->
        IF \E i \in 1..Len(LowerAlphabet) : LowerAlphabet[i] = c
        THEN UpperAlphabet[CHOOSE i \in 1..Len(LowerAlphabet) : LowerAlphabet[i] = c]
        ELSE c]

LowerOf ==
    [c \in Characters |->
        IF \E i \in 1..Len(UpperAlphabet) : UpperAlphabet[i] = c
        THEN LowerAlphabet[CHOOSE i \in 1..Len(UpperAlphabet) : UpperAlphabet[i] = c]
        ELSE c]

toUpperCase(s) == [i \in 1..Len(s) |-> UpperOf[s[i]]]

toLowerCase(s) == [i \in 1..Len(s) |-> LowerOf[s[i]]]

RECURSIVE trimStart(_)
trimStart(s) ==
    IF s # <<>> /\ Head(s) = " " THEN trimStart(Tail(s)) ELSE s

RECURSIVE trimEnd(_)
trimEnd(s) ==
    IF s # <<>> /\ s[Len(s)] = " " THEN trimEnd(SubSeq(s, 1, Len(s) - 1)) ELSE s

trim(s) == trimEnd(trimStart(s))

\* x || '' : null and the empty string are both falsy
OrEmpty(x) == IF x = Null THEN <<>> ELSE x

Truthy(x) == x # Null /\ x # <<>>

\* ------------------------------------------------------------------------
\* Registries and the values the query parameters are drawn from
\* ------------------------------------------------------------------------

gate == <<"g", "a", "t", "e">>
padgate == <<" ", "g", "a", "t", "e">>
foo == <<"f", "o", "o">>
bsc == <<"b", "s", "c">>
all == <<"a", "l", "l">>
zzz == <<"z", "z", "z">>
blank == <<" ">>

\* window.CONFIG_CHAINS: chain key -> display data
CONFIG_CHAINS ==
    [k \in {bsc} |-> [WARNA |-> "#f0b90b", Nama_Pendek |-> bsc, Nama_Chain |-> bsc]]

\* window.CONFIG_CEX: exchange key -> display data
CONFIG_CEX == [k \in {toUpperCase(gate)} |-> [WARNA |-> "#D5006D"]]

\* window.CONFIG_DEXS: dex key -> display data
flat == <<"f", "l", "a", "t">>

CONFIG_DEXS == [k \in {flat} |-> [WARNA |-> "#0ea5e9"]]

\* the fallback themes of the controller, used when CONFIG_CEX has no entry
CEX_THEMES == [k \in {toUpperCase(gate)} |-> [color |-> "#D5006D", bg |-> "#fff0f5"]]

\* values of the cex query parameter: absent, empty, blank, a registry
\* exchange in two letter cases and padded, an exchange in no registry
CexValues == {Null, <<>>, blank, gate, toUpperCase(gate), padgate, foo}

\* values of the chain query parameter: absent, empty, the sentinel in two
\* letter cases, a registry chain in two letter cases, a chain in no registry
ChainValues == {Null, <<>>, all, toUpperCase(all), bsc, toUpperCase(bsc), zzz}

\* every query the resolver is applied to
AllQueries == [cex : CexValues, chain : ChainValues]

\* the queries the page navigates between
Queries == [cex : {Null, gate, foo}, chain : {Null, bsc}]

\* arguments of enable() and toggle()
ExchangeArgs == {<<>>, blank, gate, toUpperCase(gate), foo}

\* the chain and the exchange the filter setters are called with
ChainArgs == {bsc, toUpperCase(bsc)}

CexArgs == {gate}

\* ------------------------------------------------------------------------
\* Mode resolver (utils/helpers/app-state.js)
\* ------------------------------------------------------------------------

NoMode == [_cached |-> FALSE]

Multi == [type |-> "multi"]

Single(chain) == [type |-> "single", chain |-> chain]

Cex(exchange) == [type |-> "cex", cex |-> exchange]

\* Object.assign({ _cached: true }, mode)
Cached(mode) == [f \in DOMAIN mode \cup {"_cached"} |->
                    IF f = "_cached" THEN TRUE ELSE mode[f]]

\* DeriveMode with the chain parameter examined before the cex parameter
DeriveMode_ChainFirst(search) ==
    LET cexParam == trim(OrEmpty(search.cex))
        chainParam == toLowerCase(OrEmpty(search.chain))
    IN  IF chainParam \in DOMAIN CONFIG_CHAINS THEN Single(chainParam)
        ELSE IF cexParam # <<>> THEN Cex(toUpperCase(cexParam))
        ELSE Multi

\* DeriveMode with the chain parameter compared as written, not lower-cased
DeriveMode_CaseSensitive(search) ==
    LET cexParam == trim(OrEmpty(search.cex))
        chainParam == OrEmpty(search.chain)
    IN  IF cexParam # <<>> THEN Cex(toUpperCase(cexParam))
        ELSE IF chainParam = <<>> \/ toLowerCase(chainParam) = all THEN Multi
        ELSE IF chainParam \in DOMAIN CONFIG_CHAINS THEN Single(chainParam)
        ELSE Multi

\* the mode the query selects: the uncached part of getAppMode()
DeriveMode(search) ==
    LET cexParam == trim(OrEmpty(search.cex))
        chainParam == toLowerCase(OrEmpty(search.chain))
    IN  IF cexParam # <<>> THEN Cex(toUpperCase(cexParam))
        ELSE IF chainParam = <<>> \/ chainParam = all THEN Multi
        ELSE IF chainParam \in DOMAIN CONFIG_CHAINS THEN Single(chainParam)
        ELSE Multi

\* getAppMode without the test of the cache: every call derives anew
getAppMode_Uncached(w) ==
    LET mode == Cached(DeriveMode(w.search))
    IN  [w EXCEPT !.AppMode = mode, !.ret = mode]

\* getAppMode that drops the chain parameter from a query it derives the
\* exchange mode from
getAppMode_DropsChain(w) ==
    IF w.AppMode._cached
    THEN [w EXCEPT !.ret = w.AppMode]
    ELSE LET mode == Cached(DeriveMode(w.search))
         IN  [w EXCEPT !.AppMode = mode, !.ret = mode,
                       !.search.chain = IF mode.type = "cex" THEN Null ELSE @]

\* getAppMode(): the cached mode if there is one, else the derived mode,
\* which it caches; w.ret is the value returned
getAppMode(w) ==
    IF w.AppMode._cached
    THEN [w EXCEPT !.ret = w.AppMode]
    ELSE LET mode == Cached(DeriveMode(w.search))
         IN  [w EXCEPT !.AppMode = mode, !.ret = mode]

\* invalidateAppModeCache that leaves the cached mode in place
invalidateAppModeCache_Keeps(w) == w

\* invalidateAppModeCache(): window.AppMode = null
invalidateAppModeCache(w) == [w EXCEPT !.AppMode = NoMode]

\* getActiveFilterKey(): the filter storage key of the current mode
FILTER_ == <<"F", "I", "L", "T", "E", "R", "_">>

FILTER_CEX_ == <<"F", "I", "L", "T", "E", "R", "_", "C", "E", "X", "_">>

FILTER_MULTICHAIN ==
    <<"F", "I", "L", "T", "E", "R", "_", "M", "U", "L", "T", "I", "C", "H", "A", "I", "N">>

\* FilterKeyOf with the exchange scope sharing the aggregate key
FilterKeyOf_SharedAggregate(m) ==
    IF m.type = "single" THEN FILTER_ \o toUpperCase(m.chain)
    ELSE FILTER_MULTICHAIN

FilterKeyOf(m) ==
    IF m.type = "single" THEN FILTER_ \o toUpperCase(m.chain)
    ELSE IF m.type = "cex" THEN FILTER_CEX_ \o toUpperCase(m.cex)
    ELSE FILTER_MULTICHAIN

\* getActiveFilterKey(): the filter key of the mode getAppMode() returns
getActiveFilterKey(w) == FilterKeyOf(getAppMode(w).ret)

\* getActiveTokenKey(): the token storage key of the current mode
TOKEN_ == <<"T", "O", "K", "E", "N", "_">>

TOKEN_MULTICHAIN ==
    <<"T", "O", "K", "E", "N", "_", "M", "U", "L", "T", "I", "C", "H", "A", "I", "N">>

\* TokenKeyOf with a token key of its own for each exchange
TokenKeyOf_PerExchange(m) ==
    IF m.type = "single" THEN TOKEN_ \o toUpperCase(m.chain)
    ELSE IF m.type = "cex" THEN TOKEN_ \o toUpperCase(m.cex)
    ELSE TOKEN_MULTICHAIN

TokenKeyOf(m) ==
    IF m.type = "single" THEN TOKEN_ \o toUpperCase(m.chain)
    ELSE TOKEN_MULTICHAIN

\* getActiveTokenKey(): the token key of the mode getAppMode() returns
getActiveTokenKey(w) == TokenKeyOf(getAppMode(w).ret)

\* the key of the filter getActiveFilterForMode() reads: the exchange filter
\* of getSelectedCEX() when isCEXMode(), else the aggregate filter
ActiveFilterForModeKey(w) ==
    IF w.active THEN FILTER_CEX_ \o toUpperCase(OrEmpty(w.selectedCEX))
    ELSE FILTER_MULTICHAIN

\* ------------------------------------------------------------------------
\* Observation of one synchronous turn
\*
\* log holds the events of the turn that ran last: the call that started it,
\* every enableCEXMode(cexName) and disableCEXMode() that got past its guard,
\* every history push, every cache invalidation and every read of the mode
\* (with the mode returned and the first mode returned since the cache was
\* last invalidated, NoMode if this read is the first).  firstRes is the mode the
\* first getAppMode() since the last invalidation returned, NoMode if none.
\* ------------------------------------------------------------------------

Note(w, event) == [w EXCEPT !.log = Append(@, event)]

\* a collaborator throws: the statements that follow are not run, up to the
\* catch clause of the enclosing try or else up to the caller of the turn
Throw(w) == [w EXCEPT !.threw = TRUE]

\* try { ... } catch (e) { console.error(...) } around the steps that led to w
Caught(w) ==
    IF w.threw THEN [w EXCEPT !.threw = FALSE, !.log = Append(@, [ev |-> "caught"])]
    ELSE w

\* a call of getAppMode() by any reader
ReadMode(w) ==
    LET noted(w1) ==
            [w1 EXCEPT !.log = Append(@, [ev |-> "read", mode |-> w1.ret,
                                           first |-> w.firstRes]),
                       !.firstRes = IF w.firstRes = NoMode THEN w1.ret ELSE @]
    IN  noted(getAppMode(w))

\* a call of window.invalidateAppModeCache(), made where it is a function
CallInvalidate(w) ==
    IF "no_invalidate" \in w.faults THEN w
    ELSE [invalidateAppModeCache(w) EXCEPT !.log = Append(@, [ev |-> "invalidate"]),
                                           !.firstRes = NoMode]

\* ------------------------------------------------------------------------
\* Theme application (utils/helpers/theme.js) on the visual state
\*
\* dom: the theme classes of <body>, its data-cex attribute, the document
\* title, the custom properties --theme-accent, --cex-primary and --cex-bg
\* ("" when unset) and the text of the two style blocks
\* #cex-mode-dynamic-style and #dynamic-theme-style ("" when not in the page).
\* ------------------------------------------------------------------------

SCANNER == <<"S", "C", "A", "N", "N", "E", "R">>

SCANNER_MULTICHAIN ==
    <<"S", "C", "A", "N", "N", "E", "R", " ", "M", "U", "L", "T", "I", "C", "H", "A", "I", "N">>

\* `${name} SCANNER`
ScannerTitle(name) == name \o <<" ">> \o SCANNER

DefaultAccent == "#5c9514"

InitialDom ==
    [classes |-> {}, dataCex |-> Null, title |-> SCANNER, themeAccent |-> "",
     cexPrimary |-> "", cexBg |-> "", styleCex |-> "", styleTheme |-> ""]

\* applyThemeForMode without the branch for the exchange mode
applyThemeForMode_NoCexBranch(w) ==
    LET themeOf(w1, m, classes) ==
            LET single == m.type = "single"
                accent == IF single THEN CONFIG_CHAINS[m.chain].WARNA
                          ELSE DefaultAccent
            IN  [w1 EXCEPT !.dom.classes =
                               classes \cup {IF single THEN "theme-single"
                                             ELSE "theme-multi"},
                           !.dom.themeAccent = accent,
                           !.dom.title =
                               IF single
                               THEN ScannerTitle(
                                        toUpperCase(CONFIG_CHAINS[m.chain].Nama_Pendek))
                               ELSE SCANNER_MULTICHAIN,
                           !.dom.styleTheme = accent]
        themed(w1) == themeOf(w1, w1.ret, w1.dom.classes \ {"theme-single", "theme-multi"})
    IN  themed(ReadMode(w))

\* applyThemeForMode(): the theme of the mode getAppMode() returns
applyThemeForMode(w) ==
    LET themeOf(w1, m, classes) ==
            IF m.type = "cex"
            THEN IF "theme-cex" \in classes
                 THEN [w1 EXCEPT !.dom.classes = classes]
                 ELSE LET accent == IF m.cex \in DOMAIN CONFIG_CEX
                                    THEN CONFIG_CEX[m.cex].WARNA ELSE DefaultAccent
                      IN  [w1 EXCEPT !.dom.classes = classes \cup {"theme-cex"},
                                     !.dom.dataCex = m.cex,
                                     !.dom.cexPrimary = accent,
                                     !.dom.themeAccent = accent,
                                     !.dom.styleCex = accent,
                                     !.dom.title = ScannerTitle(m.cex)]
            ELSE LET single == m.type = "single"
                     accent == IF single THEN CONFIG_CHAINS[m.chain].WARNA
                               ELSE DefaultAccent
                 IN  [w1 EXCEPT !.dom.classes =
                                    classes \cup {IF single THEN "theme-single"
                                                  ELSE "theme-multi"},
                                !.dom.themeAccent = accent,
                                !.dom.title =
                                    IF single
                                    THEN ScannerTitle(
                                             toUpperCase(CONFIG_CHAINS[m.chain].Nama_Pendek))
                                    ELSE SCANNER_MULTICHAIN,
                                !.dom.styleTheme = accent]
        themed(w1) == themeOf(w1, w1.ret, w1.dom.classes \ {"theme-single", "theme-multi"})
    IN  themed(ReadMode(w))

\* ------------------------------------------------------------------------
\* CEX mode controller (class CEXModeManager)
\* ------------------------------------------------------------------------

NoRecord == [absent |-> TRUE]

\* loadState(): the stored record, or the default when nothing is stored
loadState(stored) ==
    IF stored # NoRecord THEN stored ELSE [active |-> FALSE, selectedCEX |-> Null]

\* the constructor: loadState() inside its try, the default from its catch
\* clause when the read of the store throws, and when getFromLocalStorage is
\* no function
constructor(fs, rec) ==
    IF "get" \in fs \/ "no_get" \in fs THEN [active |-> FALSE, selectedCEX |-> Null]
    ELSE loadState(rec)

\* saveState that calls saveToLocalStorage without asking whether it is a
\* function
saveState_Unguarded(w) ==
    IF "set" \in w.faults \/ "no_set" \in w.faults THEN Throw(w)
    ELSE [w EXCEPT !.stored = [active |-> w.active, selectedCEX |-> w.selectedCEX]]

\* saveState(): saveToLocalStorage(STORAGE_KEY, {active, selectedCEX}) where
\* saveToLocalStorage is a function
saveState(w) ==
    IF "no_set" \in w.faults THEN w
    ELSE IF "set" \in w.faults THEN Throw(w)
    ELSE [w EXCEPT !.stored = [active |-> w.active, selectedCEX |-> w.selectedCEX]]

\* history.pushState(): the new entry becomes the location; once
\* setupURLMonitoring() has wrapped it, a check is deferred by 100 ms
pushState(w, search) ==
    IF "history" \in w.faults THEN Throw(w)
    ELSE [w EXCEPT !.search = search,
                   !.timers = IF w.monitoring THEN @ + 1 ELSE @,
                   !.log = Append(@, [ev |-> "push"])]

\* the hooks the controller calls, each where it is a function: the table
\* reload and the signal cards are readers of the mode
refreshTokensTable(w) ==
    IF "no_refresh" \in w.faults THEN w
    ELSE IF "refresh" \in w.faults THEN Throw(w)
    ELSE Note(ReadMode(w), [ev |-> "hook", name |-> "refreshTokensTable"])

RenderCardSignal(w) ==
    IF "no_render" \in w.faults THEN w
    ELSE IF "render" \in w.faults THEN Throw(w)
    ELSE Note(ReadMode(w), [ev |-> "hook", name |-> "RenderCardSignal"])

updateSignalTheme(w) ==
    IF "no_signal" \in w.faults THEN w
    ELSE IF "signal" \in w.faults THEN Throw(w)
    ELSE Note(w, [ev |-> "hook", name |-> "updateSignalTheme"])

\* toast.info(message), where toast is defined
toastInfo(w) ==
    IF "no_toast" \in w.faults THEN w
    ELSE IF "toast" \in w.faults THEN Throw(w)
    ELSE Note(w, [ev |-> "hook", name |-> "toast"])

\* applyTheme(cexName): the theme of the exchange, nothing when it has none
applyTheme(w, cexName) ==
    LET known == cexName \in DOMAIN CONFIG_CEX \/ cexName \in DOMAIN CEX_THEMES
        color == IF cexName \in DOMAIN CONFIG_CEX
                 THEN CONFIG_CEX[cexName].WARNA ELSE CEX_THEMES[cexName].color
        bg == IF cexName \in DOMAIN CONFIG_CEX
              THEN "#f9fafb" ELSE CEX_THEMES[cexName].bg
    IN  IF ~known THEN w
        ELSE [w EXCEPT !.dom.cexPrimary = color,
                       !.dom.cexBg = bg,
                       !.dom.themeAccent = color,
                       !.dom.classes = (@ \ {"theme-single", "theme-multi"})
                                           \cup {"cex-mode-active", "theme-cex"},
                       !.dom.dataCex = cexName,
                       !.dom.title = ScannerTitle(cexName),
                       !.dom.styleCex = color]

\* resetTheme that does not call applyThemeForMode()
resetTheme_NoReapply(w) ==
    [w EXCEPT !.dom.cexPrimary = "",
              !.dom.cexBg = "",
              !.dom.classes = @ \ {"cex-mode-active", "theme-cex"},
              !.dom.dataCex = Null,
              !.dom.styleCex = "",
              !.dom.title = SCANNER]

\* resetTheme(): the exchange theme removed, then applyThemeForMode() where
\* it is a function
resetTheme(w) ==
    LET reapply(x) == IF "no_theme" \in x.faults THEN x ELSE applyThemeForMode(x)
    IN  reapply(
            [w EXCEPT !.dom.cexPrimary = "",
                      !.dom.cexBg = "",
                      !.dom.classes = @ \ {"cex-mode-active", "theme-cex"},
                      !.dom.dataCex = Null,
                      !.dom.styleCex = "",
                      !.dom.title = SCANNER])

\* enableCEXMode that leaves the chain parameter in the query
enableCEXMode_KeepsChain(w, cexName, reload) ==
    IF ~Truthy(cexName) THEN w
    ELSE LET state(x) == saveState([x EXCEPT !.active = TRUE,
                                             !.selectedCEX = toUpperCase(cexName)])
             url(x) ==
                 IF x.threw THEN x
                 ELSE Caught(pushState(x, [x.search EXCEPT
                                              !.cex = toLowerCase(x.selectedCEX)]))
             cache(x) == IF x.threw THEN x ELSE CallInvalidate(x)
             theme(x) == IF x.threw THEN x ELSE applyTheme(x, x.selectedCEX)
             notify(x) == IF x.threw THEN x ELSE toastInfo(x)
             table(x) == IF x.threw \/ ~reload THEN x ELSE refreshTokensTable(x)
             signal(x) == IF x.threw THEN x ELSE updateSignalTheme(x)
             cards(x) == IF x.threw THEN x ELSE Caught(signal(RenderCardSignal(x)))
         IN  cards(table(notify(theme(cache(url(state(
                 Note(w, [ev |-> "enable", cexName |-> cexName]))))))))

\* enableCEXMode that leaves the query as it is
enableCEXMode_NoPush(w, cexName, reload) ==
    IF ~Truthy(cexName) THEN w
    ELSE LET state(x) == saveState([x EXCEPT !.active = TRUE,
                                             !.selectedCEX = toUpperCase(cexName)])
             cache(x) == IF x.threw THEN x ELSE CallInvalidate(x)
             theme(x) == IF x.threw THEN x ELSE applyTheme(x, x.selectedCEX)
             notify(x) == IF x.threw THEN x ELSE toastInfo(x)
             table(x) == IF x.threw \/ ~reload THEN x ELSE refreshTokensTable(x)
             signal(x) == IF x.threw THEN x ELSE updateSignalTheme(x)
             cards(x) == IF x.threw THEN x ELSE Caught(signal(RenderCardSignal(x)))
         IN  cards(table(notify(theme(cache(state(
                 Note(w, [ev |-> "enable", cexName |-> cexName])))))))

\* enableCEXMode with history.pushState() outside the try
enableCEXMode_PushUncaught(w, cexName, reload) ==
    IF ~Truthy(cexName) THEN w
    ELSE LET state(x) == saveState([x EXCEPT !.active = TRUE,
                                             !.selectedCEX = toUpperCase(cexName)])
             url(x) ==
                 IF x.threw THEN x
                 ELSE pushState(x, [cex |-> toLowerCase(x.selectedCEX), chain |-> Null])
             cache(x) == IF x.threw THEN x ELSE CallInvalidate(x)
             theme(x) == IF x.threw THEN x ELSE applyTheme(x, x.selectedCEX)
             notify(x) == IF x.threw THEN x ELSE toastInfo(x)
             table(x) == IF x.threw \/ ~reload THEN x ELSE refreshTokensTable(x)
             signal(x) == IF x.threw THEN x ELSE updateSignalTheme(x)
             cards(x) == IF x.threw THEN x ELSE Caught(signal(RenderCardSignal(x)))
         IN  cards(table(notify(theme(cache(url(state(
                 Note(w, [ev |-> "enable", cexName |-> cexName]))))))))

\* enableCEXMode(cexName, reload): the URL update is inside a try, the two
\* signal hooks share another, the other steps are inside none
enableCEXMode(w, cexName, reload) ==
    IF ~Truthy(cexName) THEN w
    ELSE LET state(x) == saveState([x EXCEPT !.active = TRUE,
                                             !.selectedCEX = toUpperCase(cexName)])
             url(x) ==
                 IF x.threw THEN x
                 ELSE Caught(pushState(x, [cex |-> toLowerCase(x.selectedCEX),
                                           chain |-> Null]))
             cache(x) == IF x.threw THEN x ELSE CallInvalidate(x)
             theme(x) == IF x.threw THEN x ELSE applyTheme(x, x.selectedCEX)
             notify(x) == IF x.threw THEN x ELSE toastInfo(x)
             table(x) == IF x.threw \/ ~reload THEN x ELSE refreshTokensTable(x)
             signal(x) == IF x.threw THEN x ELSE updateSignalTheme(x)
             cards(x) == IF x.threw THEN x ELSE Caught(signal(RenderCardSignal(x)))
         IN  cards(table(notify(theme(cache(url(state(
                 Note(w, [ev |-> "enable", cexName |-> cexName]))))))))

\* disableCEXMode that invalidates the mode cache after resetTheme()
disableCEXMode_LateInvalidate(w, reload) ==
    LET state(x) == saveState([x EXCEPT !.active = FALSE, !.selectedCEX = Null])
        url(x) ==
            IF x.threw THEN x
            ELSE Caught(pushState(x, [x.search EXCEPT !.cex = Null]))
        cache(x) == IF x.threw THEN x ELSE CallInvalidate(x)
        theme(x) == IF x.threw THEN x ELSE resetTheme(x)
        notify(x) == IF x.threw THEN x ELSE toastInfo(x)
        table(x) == IF x.threw \/ ~reload THEN x ELSE refreshTokensTable(x)
        signal(x) == IF x.threw THEN x ELSE updateSignalTheme(x)
        cards(x) == IF x.threw THEN x ELSE Caught(signal(RenderCardSignal(x)))
    IN  cards(table(notify(cache(theme(url(state(
            Note(w, [ev |-> "disable"]))))))))

\* disableCEXMode that clears active and leaves selectedCEX
disableCEXMode_KeepsSelected(w, reload) ==
    LET state(x) == saveState([x EXCEPT !.active = FALSE])
        url(x) ==
            IF x.threw THEN x
            ELSE Caught(pushState(x, [x.search EXCEPT !.cex = Null]))
        cache(x) == IF x.threw THEN x ELSE CallInvalidate(x)
        theme(x) == IF x.threw THEN x ELSE resetTheme(x)
        notify(x) == IF x.threw THEN x ELSE toastInfo(x)
        table(x) == IF x.threw \/ ~reload THEN x ELSE refreshTokensTable(x)
        signal(x) == IF x.threw THEN x ELSE updateSignalTheme(x)
        cards(x) == IF x.threw THEN x ELSE Caught(signal(RenderCardSignal(x)))
    IN  cards(table(notify(theme(cache(url(state(
            Note(w, [ev |-> "disable"]))))))))

\* disableCEXMode(reload): the URL update is inside a try, the two signal
\* hooks share another, the other steps are inside none
disableCEXMode(w, reload) ==
    LET state(x) == saveState([x EXCEPT !.active = FALSE, !.selectedCEX = Null])
        url(x) ==
            IF x.threw THEN x
            ELSE Caught(pushState(x, [x.search EXCEPT !.cex = Null]))
        cache(x) == IF x.threw THEN x ELSE CallInvalidate(x)
        theme(x) == IF x.threw THEN x ELSE resetTheme(x)
        notify(x) == IF x.threw THEN x ELSE toastInfo(x)
        table(x) == IF x.threw \/ ~reload THEN x ELSE refreshTokensTable(x)
        signal(x) == IF x.threw THEN x ELSE updateSignalTheme(x)
        cards(x) == IF x.threw THEN x ELSE Caught(signal(RenderCardSignal(x)))
    IN  cards(table(notify(theme(cache(url(state(
            Note(w, [ev |-> "disable"]))))))))

\* toggleCEXMode that disables whenever the controller is active
toggleCEXMode_AnyActive(w, cexName) ==
    IF w.active
    THEN disableCEXMode(w, TRUE)
    ELSE enableCEXMode(w, cexName, TRUE)

\* toggleCEXMode(cexName)
toggleCEXMode(w, cexName) ==
    IF w.active /\ w.selectedCEX = cexName
    THEN disableCEXMode(w, TRUE)
    ELSE enableCEXMode(w, cexName, TRUE)

\* setupURLMonitoring(): the popstate listener and the wrapped
\* pushState/replaceState are in place
setupURLMonitoring(w) == [w EXCEPT !.monitoring = TRUE]

\* init that leaves a restored active state alone when the query has no
\* cex parameter
init_NoReset(w) ==
    LET cexParam == w.search.cex
    IN  setupURLMonitoring(
            IF Truthy(cexParam) THEN enableCEXMode(w, toUpperCase(cexParam), FALSE)
            ELSE w)

\* init(): startup reconciliation against the query, then monitoring
init(w) ==
    LET cexParam == w.search.cex
        monitor(x) == IF x.threw THEN x ELSE setupURLMonitoring(x)
    IN  monitor(
            IF Truthy(cexParam) THEN enableCEXMode(w, toUpperCase(cexParam), FALSE)
            ELSE IF w.active /\ Truthy(w.selectedCEX) THEN disableCEXMode(w, FALSE)
            ELSE w)

\* checkURLAndUpdateMode that enables whenever the query has a cex parameter
checkURLAndUpdateMode_AlwaysEnable(w) ==
    LET cexParam == w.search.cex
        cexUpper == toUpperCase(OrEmpty(cexParam))
    IN  IF Truthy(cexParam)
        THEN enableCEXMode(w, cexUpper, FALSE)
        ELSE IF w.active
             THEN LET later(x) == IF x.threw THEN x
                                  ELSE [x EXCEPT !.themeTimers = @ + 1]
                  IN  later(disableCEXMode(w, FALSE))
             ELSE w

\* checkURLAndUpdateMode without the branch for a query with no cex parameter
checkURLAndUpdateMode_EnableOnly(w) ==
    LET cexParam == w.search.cex
        cexUpper == toUpperCase(OrEmpty(cexParam))
    IN  IF Truthy(cexParam) /\ (~w.active \/ w.selectedCEX # cexUpper)
        THEN enableCEXMode(w, cexUpper, FALSE)
        ELSE w

\* checkURLAndUpdateMode(): reconciliation after a detected navigation; the
\* theme of the mode is deferred where applyThemeForMode is a function
checkURLAndUpdateMode(w) ==
    LET cexParam == w.search.cex
        cexUpper == toUpperCase(OrEmpty(cexParam))
    IN  IF Truthy(cexParam)
        THEN IF ~w.active \/ w.selectedCEX # cexUpper
             THEN enableCEXMode(w, cexUpper, FALSE)
             ELSE w
        ELSE IF w.active
             THEN LET later(x) == IF x.threw \/ "no_theme" \in x.faults THEN x
                                  ELSE [x EXCEPT !.themeTimers = @ + 1]
                  IN  later(disableCEXMode(w, FALSE))
             ELSE w

\* ------------------------------------------------------------------------
\* Filter store (utils/helpers/filters.js)
\*
\* w.filters is the part of the key-value store that holds filter records
\* (and the token lists of saveActiveTokens()): a function from the keys that
\* have a record to the records; a record is a function from the names of its
\* fields to their values.  Every write is an event of the log.  A list is a
\* sequence of identifiers; NoList is a field supplied as null or undefined,
\* NoValue a call without a record to write.
\* ------------------------------------------------------------------------

NoList == << <<"null">> >>

NoValue == [absent |-> TRUE]

EmptyRecord == [f \in {} |-> <<>>]

NoFilters == [k \in {} |-> EmptyRecord]

\* getFromLocalStorage(key, {}) || {}
getFromLocalStorage(w, key) ==
    IF key \in DOMAIN w.filters THEN w.filters[key] ELSE EmptyRecord

\* saveToLocalStorage(key, record)
saveToLocalStorage(w, key, record) ==
    IF "set" \in w.faults THEN Throw(w)
    ELSE [w EXCEPT !.filters = [k \in DOMAIN w.filters \cup {key} |->
                                   IF k = key THEN record ELSE w.filters[k]],
                   !.log = Append(@, [ev |-> "write", key |-> key])]

\* the read of the key-value store throws
ReadThrows(w) == "get" \in w.faults

\* val && Object.prototype.hasOwnProperty.call(val, field)
HasOwn(val, field) == val # NoValue /\ field \in DOMAIN val

\* next[field] = value
Put(record, field, value) ==
    [f \in DOMAIN record \cup {field} |-> IF f = field THEN value ELSE record[f]]

\* list || []
ListOrEmpty(list) == IF list = NoList THEN <<>> ELSE list

\* val.<field> || [], the empty list also when val does not hold the field
Supplied(val, field) ==
    IF HasOwn(val, field) THEN ListOrEmpty(val[field]) ELSE <<>>

\* String(x) of a string
String(x) == x

\* list.map(x => String(x).toLowerCase())
MapLower(list) == [i \in 1..Len(list) |-> toLowerCase(String(list[i]))]

\* list.map(x => String(x).toUpperCase())
MapUpper(list) == [i \in 1..Len(list) |-> toUpperCase(String(list[i]))]

\* list.map(String)
MapString(list) == [i \in 1..Len(list) |-> String(list[i])]

\* if (val && hasOwnProperty(val, field)) next[field] = list
Merge(record, val, field, list) ==
    IF HasOwn(val, field) THEN Put(record, field, list) ELSE record

\* setFilterMulti that starts from an empty record, not from the stored one
setFilterMulti_Replace(w, val) ==
    LET chains(r) == Merge(r, val, "chains", MapLower(Supplied(val, "chains")))
        cex(r) == Merge(r, val, "cex", MapUpper(Supplied(val, "cex")))
        dex(r) == Merge(r, val, "dex", MapLower(Supplied(val, "dex")))
        pair(r) == Merge(r, val, "pair", MapUpper(Supplied(val, "pair")))
    IN  saveToLocalStorage(w, FILTER_MULTICHAIN, pair(dex(cex(chains(EmptyRecord)))))

\* setFilterMulti(val)
setFilterMulti(w, val) ==
    LET prev == getFromLocalStorage(w, FILTER_MULTICHAIN)
        chains(r) == Merge(r, val, "chains", MapLower(Supplied(val, "chains")))
        cex(r) == Merge(r, val, "cex", MapUpper(Supplied(val, "cex")))
        dex(r) == Merge(r, val, "dex", MapLower(Supplied(val, "dex")))
        pair(r) == Merge(r, val, "pair", MapUpper(Supplied(val, "pair")))
    IN  IF ReadThrows(w) THEN Throw(w)
        ELSE saveToLocalStorage(w, FILTER_MULTICHAIN, pair(dex(cex(chains(prev)))))

\* setFilterChain(chain, val)
setFilterChain(w, chain, val) ==
    LET key == FILTER_ \o toUpperCase(chain)
        prev == getFromLocalStorage(w, key)
        cex(r) == Merge(r, val, "cex", MapString(Supplied(val, "cex")))
        pair(r) == Merge(r, val, "pair", MapUpper(Supplied(val, "pair")))
        dex(r) == Merge(r, val, "dex", MapLower(Supplied(val, "dex")))
    IN  IF ReadThrows(w) THEN Throw(w)
        ELSE saveToLocalStorage(w, key, dex(pair(cex(prev))))

\* setFilterCEX that starts from an empty record, not from the stored one
setFilterCEX_Replace(w, cexName, val) ==
    LET key == FILTER_CEX_ \o toUpperCase(cexName)
        chains(r) == Merge(r, val, "chains", MapLower(Supplied(val, "chains")))
        pair(r) == Merge(r, val, "pair", MapUpper(Supplied(val, "pair")))
        dex(r) == Merge(r, val, "dex", MapLower(Supplied(val, "dex")))
        sort(r) == IF HasOwn(val, "sort") THEN Put(r, "sort", val.sort) ELSE r
    IN  saveToLocalStorage(w, key, sort(dex(pair(chains(EmptyRecord)))))

\* setFilterCEX(cexName, val)
setFilterCEX(w, cexName, val) ==
    LET key == FILTER_CEX_ \o toUpperCase(cexName)
        prev == getFromLocalStorage(w, key)
        chains(r) == Merge(r, val, "chains", MapLower(Supplied(val, "chains")))
        pair(r) == Merge(r, val, "pair", MapUpper(Supplied(val, "pair")))
        dex(r) == Merge(r, val, "dex", MapLower(Supplied(val, "dex")))
        sort(r) == IF HasOwn(val, "sort") THEN Put(r, "sort", val.sort) ELSE r
    IN  IF ReadThrows(w) THEN Throw(w)
        ELSE saveToLocalStorage(w, key, sort(dex(pair(chains(prev)))))

\* Object.keys(obj)
RECURSIVE KeysOf(_)
KeysOf(keys) ==
    IF keys = {} THEN <<>>
    ELSE LET k == CHOOSE x \in keys : TRUE
         IN  <<k>> \o KeysOf(keys \ {k})

ObjectKeys(obj) == KeysOf(DOMAIN obj)

\* getFromLocalStorage(key, null) returned an object
HasRecord(w, key) == key \in DOMAIN w.filters

\* f.<field> || []
FieldOrEmpty(f, field) ==
    IF field \in DOMAIN f THEN ListOrEmpty(f[field]) ELSE <<>>

\* getFilterMulti(): w.ret is the record returned
getFilterMulti(w) ==
    LET f == getFromLocalStorage(w, FILTER_MULTICHAIN)
    IN  IF ReadThrows(w) THEN Throw(w)
        ELSE IF HasRecord(w, FILTER_MULTICHAIN)
        THEN [w EXCEPT !.ret = [chains |-> FieldOrEmpty(f, "chains"),
                                cex |-> FieldOrEmpty(f, "cex"),
                                dex |-> MapLower(FieldOrEmpty(f, "dex")),
                                pair |-> MapUpper(FieldOrEmpty(f, "pair"))]]
        ELSE [w EXCEPT !.ret = [chains |-> <<>>, cex |-> <<>>, dex |-> <<>>,
                                pair |-> <<>>]]

\* getFilterChain(chain): when no record is stored under the key, the record
\* under the key of the chain's Nama_Chain, if there is one, is stored under
\* the key and read
getFilterChain(w, chain) ==
    LET chainKey == toLowerCase(String(chain))
        key == FILTER_ \o toUpperCase(chainKey)
        legacyName == IF chainKey \in DOMAIN CONFIG_CHAINS
                      THEN toUpperCase(CONFIG_CHAINS[chainKey].Nama_Chain)
                      ELSE <<>>
        legacyKey == FILTER_ \o legacyName
        migrated == IF ~HasRecord(w, key) /\ legacyName # <<>> /\ HasRecord(w, legacyKey)
                    THEN saveToLocalStorage(w, key, w.filters[legacyKey])
                    ELSE w
        read(w1) ==
            IF w1.threw THEN w1
            ELSE IF HasRecord(w1, key)
            THEN [w1 EXCEPT !.ret =
                     [cex |-> MapString(FieldOrEmpty(w1.filters[key], "cex")),
                      pair |-> MapUpper(FieldOrEmpty(w1.filters[key], "pair")),
                      dex |-> MapLower(FieldOrEmpty(w1.filters[key], "dex"))]]
            ELSE [w1 EXCEPT !.ret = [cex |-> <<>>, pair |-> <<>>, dex |-> <<>>]]
    IN  IF ReadThrows(w) THEN Throw(w) ELSE read(migrated)

\* getFilterCEX with the empty selection as the default
getFilterCEX_EmptyDefault(w, cexName) ==
    LET key == FILTER_CEX_ \o toUpperCase(String(cexName))
        f == getFromLocalStorage(w, key)
    IN  IF ReadThrows(w) THEN Throw(w)
        ELSE [w EXCEPT !.ret = [chains |-> FieldOrEmpty(f, "chains"),
                           pair |-> MapUpper(FieldOrEmpty(f, "pair")),
                           dex |-> MapLower(FieldOrEmpty(f, "dex")),
                           sort |-> IF "sort" \in DOMAIN f /\ f.sort # <<>>
                                    THEN f.sort ELSE <<"A">>]]

\* getFilterCEX(cexName)
getFilterCEX(w, cexName) ==
    LET key == FILTER_CEX_ \o toUpperCase(String(cexName))
        f == getFromLocalStorage(w, key)
    IN  IF ReadThrows(w) THEN Throw(w)
        ELSE IF HasRecord(w, key)
        THEN [w EXCEPT !.ret = [chains |-> FieldOrEmpty(f, "chains"),
                                pair |-> MapUpper(FieldOrEmpty(f, "pair")),
                                dex |-> MapLower(FieldOrEmpty(f, "dex")),
                                sort |-> IF "sort" \in DOMAIN f /\ f.sort # <<>>
                                         THEN f.sort ELSE <<"A">>]]
        ELSE [w EXCEPT !.ret = [chains |-> ObjectKeys(CONFIG_CHAINS),
                                pair |-> <<>>,
                                dex |-> MapLower(ObjectKeys(CONFIG_DEXS)),
                                sort |-> <<"A">>]]

\* a value parseFloat() reads no number from
NaN == [nan |-> TRUE]

\* the number Infinity
Infinity == [inf |-> TRUE]

\* the decimal digits, and the digits a string starts with
Digits == <<"0", "1", "2", "3", "4", "5", "6", "7", "8", "9">>

IsDigit(c) == \E d \in DOMAIN Digits : Digits[d] = c

RECURSIVE LeadingDigits(_)
LeadingDigits(s) ==
    IF s # <<>> /\ IsDigit(s[1]) THEN <<s[1]>> \o LeadingDigits(Tail(s)) ELSE <<>>

\* the number a string of digits denotes
RECURSIVE DecimalOf(_)
DecimalOf(s) ==
    IF s = <<>> THEN 0
    ELSE 10 * DecimalOf(SubSeq(s, 1, Len(s) - 1))
             + (CHOOSE d \in 0..9 : Digits[d + 1] = s[Len(s)])

\* parseFloat that reads a number only from a number
parseFloat_NumbersOnly(value) ==
    IF "num" \in DOMAIN value \/ "inf" \in DOMAIN value THEN value ELSE NaN

\* parseFloat(value): a number is itself; of a string, the number its longest
\* numeric prefix denotes after leading white space and a sign (whole numbers
\* here), NaN when there is no such prefix; NaN of any other value
parseFloat(value) ==
    IF "num" \in DOMAIN value \/ "inf" \in DOMAIN value THEN value
    ELSE IF "str" \in DOMAIN value
    THEN LET t == trimStart(value.str)
             neg == t # <<>> /\ t[1] = "-"
             body == IF t # <<>> /\ t[1] \in {"-", "+"} THEN Tail(t) ELSE t
             ds == LeadingDigits(body)
         IN  IF ds = <<>> THEN NaN
             ELSE [num |-> IF neg THEN 0 - DecimalOf(ds) ELSE DecimalOf(ds)]
    ELSE NaN

\* isFinite(v) of a number
isFinite(v) == "num" \in DOMAIN v

\* setPNLFilter(value): the threshold under the filter key of the mode
setPNLFilter(w, value) ==
    LET v == parseFloat(value)
        pnl == IF isFinite(v) /\ v.num >= 0 THEN v.num ELSE 0
        written(w1) ==
            IF ReadThrows(w1) THEN Throw(w1)
            ELSE saveToLocalStorage(w1, FilterKeyOf(w1.ret),
                     Put(getFromLocalStorage(w1, FilterKeyOf(w1.ret)), "pnl",
                         [num |-> pnl]))
    IN  written(ReadMode(w))

\* getPNLFilter(): the threshold stored under the filter key of the mode, 0
\* when none is stored and from the catch clause
getPNLFilter(w) ==
    LET read(w1) ==
            IF ReadThrows(w1) THEN Throw(w1)
            ELSE LET f == getFromLocalStorage(w1, FilterKeyOf(w1.ret))
                     v == IF "pnl" \in DOMAIN f THEN parseFloat(f.pnl) ELSE NaN
                 IN  [w1 EXCEPT !.ret = [num |-> IF isFinite(v) /\ v.num >= 0
                                                  THEN v.num ELSE 0]]
        orZero(w1) == IF w1.threw THEN [Caught(w1) EXCEPT !.ret = [num |-> 0]] ELSE w1
    IN  orZero(read(ReadMode(w)))

\* getActiveFilterForMode(): the exchange filter of getSelectedCEX() when
\* isCEXMode(), else the aggregate filter
getActiveFilterForMode(w) ==
    IF w.active THEN getFilterCEX(w, OrEmpty(w.selectedCEX)) ELSE getFilterMulti(w)

\* allFlat.filter(token => String(token.cex || '').toUpperCase() === targetCEX)
RECURSIVE FilterByCEX(_, _)
FilterByCEX(allFlat, targetCEX) ==
    IF allFlat = <<>> THEN <<>>
    ELSE (IF toUpperCase(OrEmpty(Head(allFlat).cex)) = targetCEX
          THEN <<Head(allFlat)>> ELSE <<>>)
         \o FilterByCEX(Tail(allFlat), targetCEX)

\* getEnabledTokensPerCEX with the name compared in the letter case given
getEnabledTokensPerCEX_CaseSensitive(w, cexName, present, pool) ==
    IF ~Truthy(cexName) THEN [w EXCEPT !.ret = <<>>]
    ELSE [w EXCEPT !.ret = FilterByCEX(IF present THEN pool ELSE <<>>, cexName)]

\* getEnabledTokensPerCEX(cexName) with window.getAllChainTokensFlat present
\* (it returns pool) or absent
getEnabledTokensPerCEX(w, cexName, present, pool) ==
    IF ~Truthy(cexName) THEN [w EXCEPT !.ret = <<>>]
    ELSE [w EXCEPT !.ret = FilterByCEX(IF present THEN pool ELSE <<>>,
                                       toUpperCase(cexName))]

\* ------------------------------------------------------------------------
\* Enabled chains (utils/chain-toggle-helpers.js)
\*
\* The list is stored under ENABLED_CHAINS in the key-value store.  A stored
\* value or an argument is [arr |-> list] when it is an array, another record
\* (NoValue for null, [str |-> s] for a string) when it is none.
\* ------------------------------------------------------------------------

ENABLED_CHAINS ==
    <<"E", "N", "A", "B", "L", "E", "D", "_", "C", "H", "A", "I", "N", "S">>

\* Array.isArray(value)
isArray(value) == "arr" \in DOMAIN value

\* list.filter(chain => window.CONFIG_CHAINS && window.CONFIG_CHAINS[chain])
RECURSIVE FilterChains(_)
FilterChains(list) ==
    IF list = <<>> THEN <<>>
    ELSE (IF Head(list) \in DOMAIN CONFIG_CHAINS THEN <<Head(list)>> ELSE <<>>)
         \o FilterChains(Tail(list))

\* getEnabledChains(): the stored chains that are in the chain registry, []
\* when no array is stored and from the catch clause
getEnabledChains(w) ==
    LET enabledChains == IF ENABLED_CHAINS \in DOMAIN w.filters
                         THEN w.filters[ENABLED_CHAINS] ELSE NoValue
    IN  IF ReadThrows(w) THEN [Caught(Throw(w)) EXCEPT !.ret = <<>>]
        ELSE IF ~isArray(enabledChains) THEN [w EXCEPT !.ret = <<>>]
        ELSE [w EXCEPT !.ret = FilterChains(enabledChains.arr)]

\* isChainEnabled(chainKey): the lower-cased key is among getEnabledChains()
isChainEnabled(w, chainKey) ==
    IF ~Truthy(chainKey) THEN [w EXCEPT !.ret = FALSE]
    ELSE LET found(w1) ==
                 [w1 EXCEPT !.ret = \E i \in DOMAIN w1.ret :
                                        w1.ret[i] = toLowerCase(String(chainKey))]
         IN  found(getEnabledChains(w))

\* saveEnabledChains that stores the chains in the letter case given
saveEnabledChains_NoLowerCase(w, enabledChains) ==
    IF ~isArray(enabledChains) THEN w
    ELSE Caught(saveToLocalStorage(w, ENABLED_CHAINS,
                    [arr |-> FilterChains(enabledChains.arr)]))

\* saveEnabledChains(enabledChains): nothing for a value that is no array;
\* else the lower-cased members that are in the chain registry are stored,
\* inside a try
saveEnabledChains(w, enabledChains) ==
    IF ~isArray(enabledChains) THEN w
    ELSE Caught(saveToLocalStorage(w, ENABLED_CHAINS,
                    [arr |-> FilterChains(MapLower(enabledChains.arr))]))

\* ------------------------------------------------------------------------
\* Settings save (the #btn-save-setting click handler)
\*
\* form holds what the handler reads from the page: the text of the inputs,
\* the parsed delays, the data-chain values of the checked chain toggles, the
\* RPC and the wallet input of chain bsc, the initial RPC of the migrator,
\* the list getEnabledCEXs() returns and the three inputs of each exchange
\* in it.
\* ------------------------------------------------------------------------

SETTING_SCANNER ==
    <<"S", "E", "T", "T", "I", "N", "G", "_", "S", "C", "A", "N", "N", "E", "R">>

CEX_API_KEYS == <<"C", "E", "X", "_", "A", "P", "I", "_", "K", "E", "Y", "S">>

CEX_KEYS_MIGRATED ==
    <<"C", "E", "X", "_", "K", "E", "Y", "S", "_", "M", "I", "G", "R", "A", "T", "E", "D">>

OKX == <<"O", "K", "X">>

\* /^[a-zA-Z\s]+$/.test(text)
LettersOnly(text) ==
    /\ text # <<>>
    /\ \A i \in DOMAIN text : text[i] \in (Characters \ {"_"})

\* /^0x[a-fA-F0-9]{40}$/.test(text)
EvmAddress(text) ==
    /\ Len(text) = 42
    /\ text[1] = "0"
    /\ text[2] = "x"
    /\ \A i \in 3..42 : IsDigit(text[i]) \/ text[i] \in {"a", "b", "c", "e", "f", "A", "B", "C", "E", "F"}

\* raw.split(/[\n,]+/).map(trim).filter(nonempty).join(','), for a text of
\* one key at most: the text without its separators and blanks
ParseKeys(raw) == SelectSeq(raw, LAMBDA c : c \notin {",", " "})

\* UIkit.notification({status: 'danger'}) and return
Stop(w, error) == Note(w, [ev |-> "notify", status |-> "danger", error |-> error])

\* the handler from the collection of the exchange keys on: it stops on a
\* missing key, secret or passphrase, else it stores SETTING_SCANNER and,
\* when there are exchange keys, CEX_API_KEYS and CEX_KEYS_MIGRATED
SaveSettingData(w, form, userRPCs, userWallets) ==
    LET needsPass(cex) == cex \in {<<"K", "U", "C", "O", "I", "N">>,
                                   <<"B", "I", "T", "G", "E", "T">>, OKX}
        bad == {i \in DOMAIN form.cexList :
                   \/ form.apiKey = <<>>
                   \/ form.secretKey = <<>>
                   \/ (needsPass(form.cexList[i]) /\ form.passphrase = <<>>)}
        cexKeys == [cex \in {form.cexList[i] : i \in DOMAIN form.cexList} |->
                       IF needsPass(cex)
                       THEN [ApiKey |-> form.apiKey, ApiSecret |-> form.secretKey,
                             Passphrase |-> form.passphrase]
                       ELSE [ApiKey |-> form.apiKey, ApiSecret |-> form.secretKey]]
        settingData == [nickname |-> trim(form.nickname),
                        jedaTimeGroup |-> form.jedaTimeGroup,
                        jedaKoin |-> form.jedaKoin,
                        walletMeta |-> trim(form.walletMeta),
                        matchaApiKeys |-> ParseKeys(form.matchaApiKeysRaw),
                        userRPCs |-> userRPCs,
                        userWallets |-> userWallets]
        keys(x) == IF x.threw \/ DOMAIN cexKeys = {} THEN x
                   ELSE saveToLocalStorage(x, CEX_API_KEYS, cexKeys)
        migrated(x) == IF x.threw \/ DOMAIN cexKeys = {} THEN x
                       ELSE saveToLocalStorage(x, CEX_KEYS_MIGRATED, [flag |-> TRUE])
        done(x) == IF x.threw THEN x
                   ELSE Note(x, [ev |-> "notify", status |-> "success", error |-> "none"])
    IN  IF bad # {} THEN Stop(w, "cexkeys")
        ELSE done(migrated(keys(saveToLocalStorage(w, SETTING_SCANNER, settingData))))

\* the handler from the collection of the RPCs on: it stops on an enabled
\* chain without RPC and on a missing or malformed wallet
SaveSettingChains(w, form, enabledChains) ==
    LET enabled == \E i \in DOMAIN enabledChains : enabledChains[i] = bsc
        rpc == IF trim(form.rpc) # <<>> THEN trim(form.rpc) ELSE form.initialRPC
        userRPCs == IF enabled /\ rpc # <<>> THEN [c \in {bsc} |-> rpc]
                    ELSE [c \in {} |-> <<>>]
        missingRPCs == {i \in DOMAIN enabledChains : enabledChains[i] \notin DOMAIN userRPCs}
        wallet == trim(form.wallet)
        userWallets == IF wallet # <<>> THEN [c \in {bsc} |-> wallet]
                       ELSE [c \in {} |-> <<>>]
    IN  IF missingRPCs # {} THEN Stop(w, "rpc")
        ELSE IF enabled /\ wallet = <<>> THEN Stop(w, "chainwallet")
        ELSE IF wallet # <<>> /\ ~EvmAddress(wallet) THEN Stop(w, "chainwallet")
        ELSE SaveSettingData(w, form, userRPCs, userWallets)

\* the click handler of #btn-save-setting: the validations in the order of
\* the code, with saveEnabledChains() called as soon as a chain is enabled
saveSetting(w, form) ==
    LET nickname == trim(form.nickname)
        walletMeta == trim(form.walletMeta)
        enabledChains == MapLower(form.toggles)
    IN  IF Len(nickname) < 6 \/ ~LettersOnly(nickname) THEN Stop(w, "nickname")
        ELSE IF ~isFinite(form.jedaTimeGroup) \/ form.jedaTimeGroup.num <= 0
        THEN Stop(w, "delay")
        ELSE IF ~isFinite(form.jedaKoin) \/ form.jedaKoin.num <= 0 THEN Stop(w, "delay")
        ELSE IF Len(walletMeta) < 2 \/ SubSeq(walletMeta, 1, 2) # <<"0", "x">>
        THEN Stop(w, "wallet")
        ELSE IF ParseKeys(form.matchaApiKeysRaw) = <<>> THEN Stop(w, "apikeys")
        ELSE IF enabledChains = <<>> THEN Stop(w, "nochain")
        ELSE SaveSettingChains(saveEnabledChains(w, [arr |-> enabledChains]),
                               form, enabledChains)

\* saveActiveFilters(obj): obj || {} under the filter key of the mode
saveActiveFilters(w, obj) ==
    LET written(w1) ==
            saveToLocalStorage(w1, FilterKeyOf(w1.ret),
                               IF obj = NoValue THEN EmptyRecord ELSE obj)
    IN  written(ReadMode(w))

\* saveActiveTokens(list): the list, [] for anything that is no array, under
\* the token key of the mode
saveActiveTokens(w, list) ==
    LET written(w1) ==
            saveToLocalStorage(w1, TokenKeyOf(w1.ret), ListOrEmpty(list))
    IN  written(ReadMode(w))

\* the lists a caller supplies for a field
FilterLists == {NoList, <<gate>>, <<toUpperCase(bsc), foo>>}

\* the partial records a caller writes: none, an empty one, one field, two
\* fields, and one with the sort order
PartialRecords ==
    {NoValue, EmptyRecord}
        \cup {[dex |-> l] : l \in FilterLists}
        \cup {[pair |-> l] : l \in FilterLists}
        \cup {[chains |-> <<toUpperCase(bsc)>>, cex |-> <<gate>>],
              [sort |-> <<"Z">>, dex |-> <<>>]}

\* the thresholds a caller writes
PnlValues == {[num |-> 5], [num |-> 0 - 1], NaN}

\* filter records as saveActiveFilters() of an earlier session left them
LegacyFilters ==
    [k \in {FILTER_MULTICHAIN, FILTER_ \o toUpperCase(bsc),
            FILTER_CEX_ \o toUpperCase(gate)} |->
        [dex |-> <<toUpperCase(foo)>>, pnl |-> [num |-> 5], sort |-> <<"Z">>]]

\* ------------------------------------------------------------------------
\* State
\* ------------------------------------------------------------------------

VARIABLES
    search,        \* the query of window.location: [cex, chain]
    AppMode,       \* window.AppMode, the mode cache
    active,        \* CEXModeManager.active
    selectedCEX,   \* CEXModeManager.selectedCEX
    stored,        \* the record stored under CEX_MODE_STATE
    dom,           \* the visual state
    monitoring,    \* init() has run: navigation is monitored
    timers,        \* deferred checkURLAndUpdateMode() calls pending
    themeTimers,   \* deferred applyThemeForMode() calls pending
    log,           \* the events of the last turn
    firstRes,      \* the first mode returned since the last invalidation
    filters,       \* the filter records of the key-value store
    writes,        \* the writes made to the filter store
    started,       \* the deferred init() call has been made
    faults         \* the collaborators that throw when called, and with
                   \* "no_" before the name those that are not in the page

vars == <<search, AppMode, active, selectedCEX, stored, dom, monitoring,
          timers, themeTimers, log, firstRes, filters, writes, started, faults>>

\* the records saveState() writes, as an earlier session may have left them
StoredRecords ==
    {NoRecord, [active |-> FALSE, selectedCEX |-> Null]}
        \cup {[active |-> TRUE, selectedCEX |-> toUpperCase(e)] : e \in {gate, foo}}

\* the state at the start of a turn begun by the call op(arg)
Turn(op, arg) ==
    [search |-> search, AppMode |-> AppMode, active |-> active,
     selectedCEX |-> selectedCEX, stored |-> stored, dom |-> dom,
     monitoring |-> monitoring, timers |-> timers, themeTimers |-> themeTimers,
     firstRes |-> firstRes, filters |-> filters, writes |-> writes,
     started |-> started, faults |-> faults, threw |-> FALSE,
     ret |-> NoMode,
     log |-> <<[ev |-> "call", op |-> op, arg |-> arg]>>]

\* the state at the start of a turn begun by op(arg) with the page at query
\* q; the call event keeps the query and the controller state found
Called(op, arg, q) ==
    [Turn(op, arg) EXCEPT
        !.search = q,
        !.log = <<[ev |-> "call", op |-> op, arg |-> arg,
                   was |-> [search |-> q, active |-> active,
                            selectedCEX |-> selectedCEX]]>>]

\* the turn ends in state w, with an exception thrown to its caller when
\* w.threw; no more than MaxPending timers of a kind pend
Commit(w) ==
    \E x \in {w} :
        /\ x.timers <= MaxPending
        /\ x.themeTimers <= MaxPending
        /\ search' = x.search
        /\ AppMode' = x.AppMode
        /\ active' = x.active
        /\ selectedCEX' = x.selectedCEX
        /\ stored' = x.stored
        /\ dom' = x.dom
        /\ monitoring' = x.monitoring
        /\ timers' = x.timers
        /\ themeTimers' = x.themeTimers
        /\ log' = IF x.threw THEN Append(x.log, [ev |-> "throw"]) ELSE x.log
        /\ firstRes' = x.firstRes
        /\ filters' = x.filters
        /\ writes' = x.writes
        /\ started' = x.started
        /\ faults' = x.faults

\* the page is loaded with any query and any stored record; the constructor
\* restores the controller from the record
Init ==
    /\ search \in Queries
    /\ stored \in StoredRecords
    /\ active = loadState(stored).active
    /\ selectedCEX = loadState(stored).selectedCEX
    /\ AppMode = NoMode
    /\ dom = InitialDom
    /\ monitoring = FALSE
    /\ timers = 0
    /\ themeTimers = 0
    /\ log = <<>>
    /\ firstRes = NoMode
    /\ filters = NoFilters
    /\ writes = 0
    /\ started = FALSE
    /\ faults = {}

\* ------------------------------------------------------------------------
\* Actions
\* ------------------------------------------------------------------------

\* $(document).ready: init() runs once, 500 ms after load
Startup ==
    /\ ~started
    /\ Commit(init([Called("init", Null, search) EXCEPT !.started = TRUE]))

\* any component reads the mode
Resolve == Commit(ReadMode(Turn("resolve", Null)))

\* any component invalidates the mode cache
Invalidate == Commit(CallInvalidate(Turn("invalidate", Null)))

\* any component applies the theme of the mode
ApplyTheme == Commit(applyThemeForMode(Turn("applyThemeForMode", Null)))

\* the toolbar and the other callers of the controller, once init() has
\* rendered the toolbar
Enable(e, reload) ==
    /\ monitoring
    /\ Commit(enableCEXMode(Turn("enable", e), e, reload))

Disable(reload) ==
    /\ monitoring
    /\ Commit(disableCEXMode(Turn("disable", Null), reload))

Toggle(e) ==
    /\ monitoring
    /\ Commit(toggleCEXMode(Called("toggle", e, search), e))

\* a caller toggles the same exchange twice in a row
ToggleTwice(e) ==
    /\ monitoring
    /\ \E x \in {toggleCEXMode(Called("toggleTwice", e, search), e)} :
           Commit(toggleCEXMode(x, e))

\* a caller enables an exchange and disables the mode again at once
EnableThenDisable(e) ==
    /\ monitoring
    /\ \E x \in {enableCEXMode(Called("enableThenDisable", e, search), e, TRUE)} :
           Commit(disableCEXMode(x, TRUE))

\* a caller applies the theme of the mode twice in a row; the visual state
\* after the first call is kept in the log
ApplyThemeTwice ==
    \E x \in {applyThemeForMode(Turn("applyThemeTwice", Null))} :
        Commit(applyThemeForMode(Note(x, [ev |-> "applied", dom |-> x.dom])))

\* a caller enables an exchange and applies the theme of the mode at once; the
\* visual state the controller left is kept in the log
EnableThenApplyTheme(e) ==
    /\ monitoring
    /\ \E x \in {enableCEXMode(Called("enableThenApplyTheme", e, search), e, TRUE)} :
           Commit(applyThemeForMode(Note(x, [ev |-> "applied", dom |-> x.dom])))

\* another component pushes or replaces a history entry (it may invalidate
\* the mode cache in a turn of its own); the wrapped functions defer a check
Navigate(q) ==
    Commit([Turn("navigate", Null) EXCEPT
                !.search = q,
                !.timers = IF monitoring THEN @ + 1 ELSE @])

\* back/forward to a history entry: the popstate listener checks at once
Popstate(q) ==
    /\ monitoring
    /\ Commit(checkURLAndUpdateMode(Called("popstate", Null, q)))

\* a deferred check runs
CheckTimer ==
    /\ timers > 0
    /\ Commit(checkURLAndUpdateMode(
                  [Called("check", Null, search) EXCEPT !.timers = @ - 1]))

\* a deferred applyThemeForMode() runs
ThemeTimer ==
    /\ themeTimers > 0
    /\ Commit(applyThemeForMode([Turn("themeTimer", Null) EXCEPT !.themeTimers = @ - 1]))

\* the state at the start of a call of the filter store: the call event
\* keeps the scope argument and the filter records found
FilterCall(op, scope, val) ==
    [Turn(op, val) EXCEPT
        !.writes = @ + 1,
        !.log = <<[ev |-> "call", op |-> op, arg |-> val, scope |-> scope,
                   was |-> filters]>>]

SetFilterMulti(val) ==
    /\ writes < MaxWrites
    /\ Commit(setFilterMulti(FilterCall("setFilterMulti", <<>>, val), val))

SetFilterChain(chain, val) ==
    /\ writes < MaxWrites
    /\ Commit(setFilterChain(FilterCall("setFilterChain", chain, val), chain, val))

SetFilterCEX(cexName, val) ==
    /\ writes < MaxWrites
    /\ Commit(setFilterCEX(FilterCall("setFilterCEX", cexName, val), cexName, val))

SetPNLFilter(value) ==
    /\ writes < MaxWrites
    /\ Commit(setPNLFilter(FilterCall("setPNLFilter", <<>>, value), value))

SaveActiveFilters(obj) ==
    /\ writes < MaxWrites
    /\ Commit(saveActiveFilters(FilterCall("saveActiveFilters", <<>>, obj), obj))

SaveActiveTokens(list) ==
    /\ writes < MaxWrites
    /\ Commit(saveActiveTokens(FilterCall("saveActiveTokens", <<>>, list), list))

\* the state at the start of a read of the filter store
FilterRead(op, scope) ==
    [Turn(op, Null) EXCEPT
        !.log = <<[ev |-> "call", op |-> op, arg |-> Null, scope |-> scope,
                   was |-> filters]>>]

\* the read returns w.ret to its caller
Return(w) == IF w.threw THEN w ELSE Note(w, [ev |-> "return", value |-> w.ret])

GetFilterMulti == Commit(Return(getFilterMulti(FilterRead("getFilterMulti", <<>>))))

GetFilterChain(chain) ==
    Commit(Return(getFilterChain(FilterRead("getFilterChain", chain), chain)))

GetFilterCEX(cexName) ==
    Commit(Return(getFilterCEX(FilterRead("getFilterCEX", cexName), cexName)))

GetPNLFilter == Commit(Return(getPNLFilter(FilterRead("getPNLFilter", <<>>))))

GetActiveFilterForMode ==
    Commit(Return(getActiveFilterForMode(FilterRead("getActiveFilterForMode", <<>>))))

\* ------------------------------------------------------------------------
\* Specifications
\* ------------------------------------------------------------------------

Next ==
    \/ Startup
    \/ Resolve
    \/ Invalidate
    \/ ApplyTheme
    \/ \E e \in ExchangeArgs, reload \in BOOLEAN : Enable(e, reload)
    \/ \E reload \in BOOLEAN : Disable(reload)
    \/ \E e \in ExchangeArgs : Toggle(e)
    \/ \E q \in Queries : Navigate(q)
    \/ \E q \in Queries : Popstate(q)
    \/ CheckTimer
    \/ ThemeTimer

Spec == Init /\ [][Next]_vars

\* The resolver alone, applied to every query of AllQueries: the page is
\* loaded with any of them, components navigate, invalidate and resolve.
InitResolver ==
    /\ search \in AllQueries
    /\ stored = NoRecord
    /\ active = FALSE
    /\ selectedCEX = Null
    /\ AppMode = NoMode
    /\ dom = InitialDom
    /\ monitoring = FALSE
    /\ timers = 0
    /\ themeTimers = 0
    /\ log = <<>>
    /\ firstRes = NoMode
    /\ filters = NoFilters
    /\ writes = 0
    /\ started = FALSE
    /\ faults = {}

NextResolver ==
    \/ Resolve
    \/ Invalidate
    \/ \E q \in AllQueries : Navigate(q)

SpecResolver == InitResolver /\ [][NextResolver]_vars

\* Callers that make two calls of the controller in a row, on a page that is
\* loaded with any query and any stored record and navigates between queries.
NextCallers ==
    \/ Startup
    \/ \E e \in ExchangeArgs : ToggleTwice(e)
    \/ \E e \in ExchangeArgs : EnableThenDisable(e)
    \/ \E q \in Queries : Navigate(q)
    \/ CheckTimer
    \/ ThemeTimer

SpecCallers == Init /\ [][NextCallers]_vars

\* Callers of applyThemeForMode(): twice in a row, and right after the
\* controller enabled an exchange, on a page that navigates, invalidates the
\* mode cache and leaves the exchange mode.
NextTheme ==
    \/ Startup
    \/ ApplyThemeTwice
    \/ \E e \in ExchangeArgs : EnableThenApplyTheme(e)
    \/ \E reload \in BOOLEAN : Disable(reload)
    \/ Invalidate
    \/ \E q \in Queries : Navigate(q)
    \/ CheckTimer
    \/ ThemeTimer

SpecTheme == Init /\ [][NextTheme]_vars

\* The filter store: the page is at a query of one of the three scopes, the
\* store holds no filter record or the records of an earlier session, and
\* callers write partial records and thresholds.
InitFilters ==
    /\ search \in {[cex |-> Null, chain |-> Null], [cex |-> Null, chain |-> bsc],
                   [cex |-> gate, chain |-> Null]}
    /\ filters \in {NoFilters, LegacyFilters}
    /\ writes = 0
    /\ stored = NoRecord
    /\ active = FALSE
    /\ selectedCEX = Null
    /\ AppMode = NoMode
    /\ dom = InitialDom
    /\ monitoring = FALSE
    /\ timers = 0
    /\ themeTimers = 0
    /\ log = <<>>
    /\ firstRes = NoMode
    /\ started = FALSE
    /\ faults = {}

NextFilters ==
    \/ \E val \in PartialRecords : SetFilterMulti(val)
    \/ \E chain \in ChainArgs, val \in PartialRecords : SetFilterChain(chain, val)
    \/ \E cexName \in CexArgs, val \in PartialRecords : SetFilterCEX(cexName, val)
    \/ \E value \in PnlValues : SetPNLFilter(value)
    \/ GetFilterMulti
    \/ \E chain \in ChainArgs : GetFilterChain(chain)
    \/ \E cexName \in CexArgs : GetFilterCEX(cexName)
    \/ GetPNLFilter

SpecFilters == InitFilters /\ [][NextFilters]_vars

\* The filter store on a key-value store whose read, whose write or both
\* throw, or neither.
InitStoreFaults ==
    /\ search \in {[cex |-> Null, chain |-> Null], [cex |-> Null, chain |-> bsc],
                   [cex |-> gate, chain |-> Null]}
    /\ filters \in {NoFilters, LegacyFilters}
    /\ faults \in SUBSET {"get", "set"}
    /\ writes = 0
    /\ stored = NoRecord
    /\ active = FALSE
    /\ selectedCEX = Null
    /\ AppMode = NoMode
    /\ dom = InitialDom
    /\ monitoring = FALSE
    /\ timers = 0
    /\ themeTimers = 0
    /\ log = <<>>
    /\ firstRes = NoMode
    /\ started = FALSE

SpecStoreFaults == InitStoreFaults /\ [][NextFilters]_vars

\* The mode-keyed accessors on a page that navigates: components write the
\* threshold, the filters and the tokens of the active mode between
\* navigations and transitions of the controller.
NextKeyed ==
    \/ Startup
    \/ \E e \in CexArgs, reload \in BOOLEAN : Enable(e, reload)
    \/ \E reload \in BOOLEAN : Disable(reload)
    \/ \E q \in Queries : Navigate(q)
    \/ \E q \in Queries : Popstate(q)
    \/ CheckTimer
    \/ ThemeTimer
    \/ SetPNLFilter([num |-> 5])
    \/ \E obj \in {NoValue, [pnl |-> [num |-> 5]]} : SaveActiveFilters(obj)
    \/ \E list \in {NoList, <<foo>>} : SaveActiveTokens(list)

SpecKeyed == Init /\ [][NextKeyed]_vars

\* The components side by side: the resolver, the filter store and the
\* mode-keyed accessors are called between transitions of the controller and
\* navigations.
OwnerQueries ==
    {[cex |-> Null, chain |-> Null], [cex |-> Null, chain |-> bsc],
     [cex |-> gate, chain |-> bsc]}

InitOwners ==
    /\ search \in OwnerQueries
    /\ stored \in {NoRecord, [active |-> TRUE, selectedCEX |-> toUpperCase(gate)]}
    /\ active = loadState(stored).active
    /\ selectedCEX = loadState(stored).selectedCEX
    /\ AppMode = NoMode
    /\ dom = InitialDom
    /\ monitoring = FALSE
    /\ timers = 0
    /\ themeTimers = 0
    /\ log = <<>>
    /\ firstRes = NoMode
    /\ filters = NoFilters
    /\ writes = 0
    /\ started = FALSE
    /\ faults = {}

NextOwners ==
    \/ Startup
    \/ Resolve
    \/ Enable(gate, TRUE)
    \/ Disable(TRUE)
    \/ \E q \in OwnerQueries : Navigate(q)
    \/ CheckTimer
    \/ ThemeTimer
    \/ SetFilterMulti([dex |-> <<gate>>])
    \/ SetFilterChain(bsc, [dex |-> <<gate>>])
    \/ SetFilterCEX(gate, [dex |-> <<gate>>])
    \/ SetPNLFilter([num |-> 5])
    \/ SaveActiveTokens(<<foo>>)
    \/ GetFilterMulti
    \/ GetFilterChain(bsc)
    \/ GetFilterCEX(gate)
    \/ GetPNLFilter
    \/ GetActiveFilterForMode

SpecOwners == InitOwners /\ [][NextOwners]_vars

\* The threshold filter: values a caller passes to setPNLFilter (numbers, the
\* text of an input field) and records an earlier session left in the store
ThresholdArgs ==
    {[num |-> 5], [num |-> 7], [num |-> 0 - 1], NaN, Infinity,
     [str |-> <<"7">>], [str |-> <<"7", "a">>], [str |-> <<"a">>],
     [str |-> <<"-", "1">>]}

StoredThresholds ==
    (FILTER_MULTICHAIN :> [pnl |-> [num |-> 0 - 1]])
    @@ (FILTER_ \o toUpperCase(bsc) :> [pnl |-> [str |-> <<"a">>]])
    @@ (FILTER_CEX_ \o toUpperCase(gate) :> [pnl |-> [str |-> <<"5", "a">>]])

InitThreshold ==
    /\ search \in {[cex |-> Null, chain |-> Null], [cex |-> Null, chain |-> bsc],
                   [cex |-> gate, chain |-> Null]}
    /\ filters \in {NoFilters, LegacyFilters, StoredThresholds}
    /\ writes = 0
    /\ stored = NoRecord
    /\ active = FALSE
    /\ selectedCEX = Null
    /\ AppMode = NoMode
    /\ dom = InitialDom
    /\ monitoring = FALSE
    /\ timers = 0
    /\ themeTimers = 0
    /\ log = <<>>
    /\ firstRes = NoMode
    /\ started = FALSE
    /\ faults = {}

NextThreshold ==
    \/ \E value \in ThresholdArgs : SetPNLFilter(value)
    \/ GetPNLFilter
    \/ \E q \in {[cex |-> Null, chain |-> Null], [cex |-> Null, chain |-> bsc],
                  [cex |-> gate, chain |-> Null]} : Navigate(q)
    \/ Invalidate

SpecThreshold == InitThreshold /\ [][NextThreshold]_vars

\* The exchange-scoped token view: token records as getAllChainTokensFlat()
\* returns them, one row per token and exchange, and pools of up to MaxPool
\* of them
MaxPool == 3

TokenRows ==
    {[symbol |-> <<"A">>, cex |-> toUpperCase(gate)],
     [symbol |-> <<"B">>, cex |-> gate],
     [symbol |-> <<"C">>, cex |-> toUpperCase(foo)],
     [symbol |-> <<"D">>, cex |-> Null]}

TokenPools == UNION {[1..n -> TokenRows] : n \in 0..MaxPool}

ExchangeNames == {gate, <<"G", "a", "t", "e">>, foo, <<>>, Null}

GetEnabledTokensPerCEX(cexName, present, pool) ==
    Commit(Return(getEnabledTokensPerCEX(
        [Turn("getEnabledTokensPerCEX", cexName) EXCEPT
            !.log = <<[ev |-> "call", op |-> "getEnabledTokensPerCEX",
                       arg |-> cexName, present |-> present, pool |-> pool]>>],
        cexName, present, pool)))

InitTokens ==
    /\ Init
    /\ search = [cex |-> Null, chain |-> Null]
    /\ stored = NoRecord

NextTokens ==
    \/ \E cexName \in ExchangeNames, pool \in TokenPools :
           GetEnabledTokensPerCEX(cexName, TRUE, pool)
    \/ \E cexName \in ExchangeNames : GetEnabledTokensPerCEX(cexName, FALSE, <<>>)

SpecTokens == InitTokens /\ [][NextTokens]_vars

\* The enabled chains: lists a caller saves, values that are no array, and
\* the values an earlier session left under ENABLED_CHAINS
ChainLists ==
    {[arr |-> <<>>], [arr |-> <<bsc>>], [arr |-> <<toUpperCase(bsc)>>],
     [arr |-> <<foo, bsc>>], [arr |-> <<toUpperCase(bsc), foo, bsc>>],
     [arr |-> <<foo>>]}

NotArrays == {NoValue, [str |-> bsc]}

ChainKeys == {bsc, toUpperCase(bsc), <<"B", "s", "c">>, foo, <<>>, Null}

\* the state at the start of a call of the chain helpers: the call event
\* keeps the store found
ChainCall(op, arg) ==
    [Turn(op, arg) EXCEPT
        !.log = <<[ev |-> "call", op |-> op, arg |-> arg, was |-> filters]>>]

GetEnabledChains == Commit(Return(getEnabledChains(ChainCall("getEnabledChains", Null))))

IsChainEnabled(chainKey) ==
    Commit(Return(isChainEnabled(ChainCall("isChainEnabled", chainKey), chainKey)))

SaveEnabledChains(enabledChains) ==
    Commit(saveEnabledChains(ChainCall("saveEnabledChains", enabledChains),
                             enabledChains))

InitChains ==
    /\ search = [cex |-> Null, chain |-> Null]
    /\ filters \in {NoFilters} \cup
                   {(ENABLED_CHAINS :> v) : v \in ChainLists \cup NotArrays}
    /\ writes = 0
    /\ stored = NoRecord
    /\ active = FALSE
    /\ selectedCEX = Null
    /\ AppMode = NoMode
    /\ dom = InitialDom
    /\ monitoring = FALSE
    /\ timers = 0
    /\ themeTimers = 0
    /\ log = <<>>
    /\ firstRes = NoMode
    /\ started = FALSE
    /\ faults = {}

NextChains ==
    \/ \E enabledChains \in ChainLists \cup NotArrays : SaveEnabledChains(enabledChains)
    \/ GetEnabledChains
    \/ \E chainKey \in ChainKeys : IsChainEnabled(chainKey)

SpecChains == InitChains /\ [][NextChains]_vars

\* The settings form: a form that passes every validation, with the first
\* fields altered, and with the chain, wallet and exchange fields altered
ValidWallet == <<"0", "x">> \o [i \in 1..40 |-> "a"]

ValidForm ==
    [nickname |-> <<"a", "b", "c", "e", "f", "g">>,
     jedaTimeGroup |-> [num |-> 5],
     jedaKoin |-> [num |-> 5],
     walletMeta |-> <<"0", "x", "a">>,
     matchaApiKeysRaw |-> <<"a">>,
     toggles |-> <<toUpperCase(bsc)>>,
     rpc |-> <<"a">>,
     initialRPC |-> <<>>,
     wallet |-> ValidWallet,
     cexList |-> <<toUpperCase(gate)>>,
     apiKey |-> <<"a">>,
     secretKey |-> <<"b">>,
     passphrase |-> <<"c">>]

Forms ==
    {[ValidForm EXCEPT !.nickname = n, !.jedaTimeGroup = g, !.jedaKoin = k,
                       !.walletMeta = m, !.matchaApiKeysRaw = a] :
        n \in {<<"a", "b", "c">>, <<"a", "b", "c", "e", "f", "1">>, ValidForm.nickname},
        g \in {NaN, [num |-> 5]},
        k \in {[num |-> 0], [num |-> 5]},
        m \in {<<"a">>, ValidForm.walletMeta},
        a \in {<<",", " ">>, <<"a">>}}
    \cup
    {[ValidForm EXCEPT !.toggles = t, !.rpc = r[1], !.initialRPC = r[2],
                       !.wallet = wl, !.cexList = c,
                       !.apiKey = x[1], !.secretKey = x[2], !.passphrase = x[3]] :
        t \in {<<>>, <<toUpperCase(bsc)>>},
        r \in {<< <<>>, <<>> >>, << <<"a">>, <<>> >>, << <<>>, <<"b">> >>},
        wl \in {<<>>, <<"0", "x", "a">>, ValidWallet},
        c \in {<<>>, <<toUpperCase(gate)>>, <<OKX>>},
        x \in {<< <<"a">>, <<"b">>, <<"c">> >>, << <<>>, <<"b">>, <<"c">> >>,
               << <<"a">>, <<>>, <<"c">> >>, << <<"a">>, <<"b">>, <<>> >>}}

SaveSetting(form) == Commit(saveSetting(ChainCall("saveSetting", form), form))

InitSettings ==
    /\ InitChains
    /\ filters \in {NoFilters, (ENABLED_CHAINS :> [arr |-> <<>>])}

NextSettings == \E form \in Forms : SaveSetting(form)

SpecSettings == InitSettings /\ [][NextSettings]_vars

\* the collaborators of the controller, one of which throws when called, or
\* none
ControllerFaults ==
    {{}} \cup {{c} : c \in {"get", "set", "history", "toast", "refresh", "render",
                             "signal"}}

\* The controller with a throwing collaborator: the page is loaded with any
\* query and any stored record, which the constructor reads
InitFaults ==
    /\ search \in Queries
    /\ stored \in StoredRecords
    /\ faults \in ControllerFaults
    /\ active = constructor(faults, stored).active
    /\ selectedCEX = constructor(faults, stored).selectedCEX
    /\ AppMode = NoMode
    /\ dom = InitialDom
    /\ monitoring = FALSE
    /\ timers = 0
    /\ themeTimers = 0
    /\ log = <<>>
    /\ firstRes = NoMode
    /\ filters = NoFilters
    /\ writes = 0
    /\ started = FALSE

NextFaults ==
    \/ Startup
    \/ \E e \in ExchangeArgs, reload \in BOOLEAN : Enable(e, reload)
    \/ \E reload \in BOOLEAN : Disable(reload)
    \/ \E e \in ExchangeArgs : Toggle(e)
    \/ \E q \in Queries : Popstate(q)
    \/ CheckTimer
    \/ ThemeTimer

SpecFaults == InitFaults /\ [][NextFaults]_vars

\* the optional collaborators of the controller: the theme function, the
\* table reload, the two signal-card hooks, the notification channel, the
\* cache invalidation and the two functions of the key-value store
OptionalCollaborators ==
    {{"no_theme"}, {"no_refresh"}, {"no_render", "no_signal"}, {"no_toast"},
     {"no_invalidate"}, {"no_get", "no_set"}}

\* The controller on a page where any of its optional collaborators are
\* absent; without the functions of the store there is no stored record
InitAbsent ==
    /\ search \in OwnerQueries
    /\ faults \in {UNION absent : absent \in SUBSET OptionalCollaborators}
    /\ stored \in IF "no_get" \in faults THEN {NoRecord}
                  ELSE {NoRecord, [active |-> TRUE, selectedCEX |-> toUpperCase(gate)]}
    /\ active = constructor(faults, stored).active
    /\ selectedCEX = constructor(faults, stored).selectedCEX
    /\ AppMode = NoMode
    /\ dom = InitialDom
    /\ monitoring = FALSE
    /\ timers = 0
    /\ themeTimers = 0
    /\ log = <<>>
    /\ firstRes = NoMode
    /\ filters = NoFilters
    /\ writes = 0
    /\ started = FALSE

NextAbsent ==
    \/ Startup
    \/ \E reload \in BOOLEAN : Enable(gate, reload)
    \/ \E reload \in BOOLEAN : Disable(reload)
    \/ \E q \in OwnerQueries : Popstate(q)
    \/ CheckTimer
    \/ ThemeTimer

SpecAbsent == InitAbsent /\ [][NextAbsent]_vars

\* ------------------------------------------------------------------------
\* Vocabulary of the properties
\* ------------------------------------------------------------------------

\* the call that started the last turn
LastOp == IF log = <<>> THEN "none" ELSE log[1].op

LastArg == IF log = <<>> THEN Null ELSE log[1].arg

\* the query and the controller state the last turn started from
Was == log[1].was

Events(kind) == {i \in DOMAIN log : log[i].ev = kind}

\* the last turn was a single getAppMode() that found the cache empty
FreshResolve ==
    /\ LastOp = "resolve"
    /\ log[2].first = NoMode

\* what getAppMode() would return if it were called now
ResolveNow == getAppMode(Turn("resolve", Null)).ret

\* the theme of the chain or aggregate mode m is the one applied, with no
\* marker of the exchange theme left
ThemeApplied(m) ==
    /\ dom.classes \cap {"theme-cex", "cex-mode-active"} = {}
    /\ dom.dataCex = Null
    /\ dom.styleCex = ""
    /\ IF m.type = "single"
       THEN /\ "theme-single" \in dom.classes
            /\ "theme-multi" \notin dom.classes
            /\ dom.themeAccent = CONFIG_CHAINS[m.chain].WARNA
            /\ dom.title = ScannerTitle(toUpperCase(m.chain))
       ELSE /\ m.type = "multi"
            /\ "theme-multi" \in dom.classes
            /\ "theme-single" \notin dom.classes
            /\ dom.themeAccent = DefaultAccent
            /\ dom.title = SCANNER_MULTICHAIN

IsMulti(m) == m.type = "multi" /\ DOMAIN m = {"_cached", "type"}

IsSingle(m, chain) ==
    m.type = "single" /\ DOMAIN m = {"_cached", "type", "chain"} /\ m.chain = chain

IsCex(m, exchange) ==
    m.type = "cex" /\ DOMAIN m = {"_cached", "type", "cex"} /\ m.cex = exchange

\* ------------------------------------------------------------------------
\* Properties
\* ------------------------------------------------------------------------

\* C1 (as stated): a resolve() that derives the mode returns exactly one of
\* Multi, Single{chain}, Cex{exchange}, and whenever the cex parameter is
\* present and non-empty it returns Cex{the upper-cased cex value}, whatever
\* the chain parameter holds.
C1_CexWhenNonEmpty ==
    FreshResolve =>
        LET m == log[2].mode
        IN  /\ \/ IsMulti(m)
               \/ \E c \in DOMAIN CONFIG_CHAINS : IsSingle(m, c)
               \/ m.type = "cex" /\ DOMAIN m = {"_cached", "type", "cex"}
            /\ Truthy(search.cex) => IsCex(m, toUpperCase(search.cex))

\* C1 (amended): a resolve() that derives the mode returns exactly one of
\* Multi, Single{chain}, Cex{exchange}, and whenever the cex parameter is
\* non-empty after trimming white space it returns Cex{the upper-cased trimmed
\* value}, whatever the chain parameter holds and whether or not the exchange
\* is in the exchange registry.
C1_CexWhenNonBlank ==
    FreshResolve =>
        LET m == log[2].mode
        IN  /\ \/ IsMulti(m)
               \/ \E c \in DOMAIN CONFIG_CHAINS : IsSingle(m, c)
               \/ m.type = "cex" /\ DOMAIN m = {"_cached", "type", "cex"}
            /\ trim(OrEmpty(search.cex)) # <<>>
                   => IsCex(m, toUpperCase(trim(search.cex)))

\* C1 witness: a padded exchange outside the registry, beside a registry
\* chain, has resolved to Cex
C1_Witness ==
    /\ FreshResolve
    /\ search.cex = padgate
    /\ search.chain = bsc
    /\ IsCex(log[2].mode, toUpperCase(gate))

\* C2 (as stated): with no or an empty cex parameter, a resolve() that
\* derives the mode returns Multi when chain is absent or "all" in any letter
\* case, Single{chain} when the chain value is a key of the chain registry,
\* and Multi when the chain value is not a key of the registry.
C2_ChainAsWritten ==
    (FreshResolve /\ ~Truthy(search.cex)) =>
        LET m == log[2].mode
            chain == search.chain
        IN  IF ~Truthy(chain) \/ toLowerCase(chain) = all THEN IsMulti(m)
            ELSE IF chain \in DOMAIN CONFIG_CHAINS THEN IsSingle(m, chain)
            ELSE IsMulti(m)

\* C2 (amended): with no or an empty cex parameter, a resolve() that derives
\* the mode returns Multi when chain is absent, empty or "all" in any letter
\* case, Single{lower-cased chain} when the lower-cased chain value is a key
\* of the chain registry, and Multi otherwise.
C2_ChainLowerCased ==
    (FreshResolve /\ ~Truthy(search.cex)) =>
        LET m == log[2].mode
            chain == toLowerCase(OrEmpty(search.chain))
        IN  IF chain = <<>> \/ chain = all THEN IsMulti(m)
            ELSE IF chain \in DOMAIN CONFIG_CHAINS THEN IsSingle(m, chain)
            ELSE IsMulti(m)

\* C2 witness: an upper-case registry chain has resolved to Single
C2_Witness ==
    /\ FreshResolve
    /\ search.cex = <<>>
    /\ search.chain = toUpperCase(bsc)
    /\ IsSingle(log[2].mode, bsc)

\* C3: every getAppMode() that is not the first since the cache was last
\* invalidated returns the mode the first one returned, also when the query
\* has changed in between.
C3_StableUntilInvalidated ==
    \A i \in Events("read") :
        log[i].first # NoMode => log[i].mode = log[i].first

\* C3 witness: a resolve() has returned the cached mode although the query
\* now selects another mode
C3_Witness ==
    /\ LastOp = "resolve"
    /\ log[2].first # NoMode
    /\ log[2].mode # Cached(DeriveMode(search))

\* C4: after invalidate() the cache is empty, whatever it held, and the
\* first getAppMode() after an invalidation returns the mode the query selects
\* at that moment.
C4_InvalidateClears ==
    /\ LastOp = "invalidate" => AppMode = NoMode
    /\ \A i \in Events("read") :
           log[i].first = NoMode => log[i].mode = Cached(DeriveMode(search))

\* C4 witness: the cache held Cex, the query moved to the registry chain, and
\* the first resolve() after an invalidation has returned Single
C4_Witness ==
    \E i \in Events("invalidate"), j \in Events("read") :
        /\ i < j
        /\ log[j].first = NoMode
        /\ log[j].mode.type = "single"
        /\ LastOp = "toggle"

\* C5 (as stated): once the controller has handled a navigation (a popstate
\* event or a deferred check after a push or replace), getAppMode() returns
\* the mode the current query selects.
C5_NavigationInvalidates ==
    LastOp \in {"check", "popstate"} => ResolveNow = Cached(DeriveMode(search))

\* C6: in a turn in which the controller rewrites the query, every read of
\* the mode that follows the rewrite comes after an invalidation of the cache
\* and returns the mode the rewritten query selects.
C6_InvalidateBeforeRead ==
    \A i \in Events("push"), j \in Events("read") :
        i < j =>
            /\ \E k \in Events("invalidate") : i < k /\ k < j
            /\ log[j].mode = Cached(DeriveMode(search))

\* C6 witness: disable() has run while the cache held the exchange mode, and
\* the reads after its rewrite returned the chain mode
C6_Witness ==
    /\ LastOp = "toggle"
    /\ Events("disable") # {}
    /\ \E i \in Events("push"), j \in Events("read") :
           i < j /\ log[j].mode.type = "single"
    /\ Cardinality(Events("read")) >= 3

\* C7 (as stated, for exchange identifiers that need no trimming): when no
\* transition is in progress (init() has run and no deferred callback pends)
\* the controller is active with selected exchange e exactly when
\* getAppMode() returns Cex{e}, and in exchange scope the filter read through
\* the controller and the filter key of the resolver agree.
C7_ObserversAgree ==
    (/\ monitoring /\ timers = 0 /\ themeTimers = 0
     /\ selectedCEX \in {Null, toUpperCase(gate), toUpperCase(foo)}
     /\ search.cex \in {Null, gate, foo}) =>
        /\ active <=> ResolveNow.type = "cex"
        /\ active => /\ IsCex(ResolveNow, selectedCEX)
                     /\ ActiveFilterForModeKey(Turn("read", Null))
                            = getActiveFilterKey(Turn("read", Null))

\* C8 (as stated): enableCEXMode(e) with a non-empty e ends active with
\* selectedCEX = upper(e), that state stored, a query with the cex parameter
\* for e and no chain parameter, and the cache invalidated so that
\* getAppMode() returns Cex{upper(e)}.
C8_EnablePostcondition ==
    \A i \in Events("enable") :
        LET e == log[i].cexName
        IN  /\ active
            /\ selectedCEX = toUpperCase(e)
            /\ stored = [active |-> TRUE, selectedCEX |-> toUpperCase(e)]
            /\ toUpperCase(search.cex) = toUpperCase(e)
            /\ search.chain = Null
            /\ \E p \in Events("push"), k \in Events("invalidate") : p < k
            /\ IsCex(ResolveNow, toUpperCase(e))

\* C9: disableCEXMode() ends inactive with selectedCEX null, that state
\* stored, a query without the cex parameter, the cache invalidated after the
\* rewrite (getAppMode() returns the mode the query selects), the exchange
\* theme markers removed and the theme of the chain or aggregate scope the
\* query selects applied.
C9_DisablePostcondition ==
    Events("disable") # {} =>
        LET m == DeriveMode(search)
        IN  /\ ~active
            /\ selectedCEX = Null
            /\ stored = [active |-> FALSE, selectedCEX |-> Null]
            /\ search.cex = Null
            /\ \E p \in Events("push"), k \in Events("invalidate") : p < k
            /\ ResolveNow = Cached(m)
            /\ dom.classes \cap {"theme-cex", "cex-mode-active"} = {}
            /\ dom.dataCex = Null
            /\ dom.cexPrimary = ""
            /\ dom.cexBg = ""
            /\ dom.styleCex = ""
            /\ IF m.type = "single"
               THEN /\ "theme-single" \in dom.classes
                    /\ "theme-multi" \notin dom.classes
                    /\ dom.themeAccent = CONFIG_CHAINS[m.chain].WARNA
                    /\ dom.title = ScannerTitle(toUpperCase(m.chain))
               ELSE /\ m.type = "multi"
                    /\ "theme-multi" \in dom.classes
                    /\ "theme-single" \notin dom.classes
                    /\ dom.themeAccent = DefaultAccent
                    /\ dom.title = SCANNER_MULTICHAIN

\* C9 witness: toggle(e) has disabled the controller from Active(e) with the
\* registry chain in the query, and the chain theme is applied
C9_Witness ==
    /\ LastOp = "toggle"
    /\ Events("disable") # {}
    /\ LastArg = toUpperCase(gate)
    /\ search.chain = bsc
    /\ "theme-single" \in dom.classes

\* C10: selectedCEX is non-null if and only if active is true.
C10_SelectedIffActive == (selectedCEX # Null) <=> active

\* C10 witness: the controller, restored active from the stored record, has
\* been disabled by a toggle of its exchange
C10_Witness ==
    /\ LastOp = "toggle"
    /\ Events("disable") # {}
    /\ ~active
    /\ selectedCEX = Null

\* C11: after init() the query decides, whatever record was stored: with no
\* cex parameter the controller is inactive and the stored state, as
\* loadState() reads it, is {active: false, selectedCEX: null}; with cex
\* parameter x the controller is active with selectedCEX = upper(x) and the
\* stored record says so.
C11_URLAuthoritative ==
    LastOp = "init" =>
        IF Truthy(Was.search.cex)
        THEN /\ active
             /\ selectedCEX = toUpperCase(Was.search.cex)
             /\ stored = [active |-> TRUE,
                          selectedCEX |-> toUpperCase(Was.search.cex)]
        ELSE /\ ~active
             /\ selectedCEX = Null
             /\ loadState(stored) = [active |-> FALSE, selectedCEX |-> Null]

\* C11 witness: init() found a restored active state and a query with no cex
\* parameter, and has disabled the controller and stored the correction
C11_Witness ==
    /\ LastOp = "init"
    /\ Was.active
    /\ Was.search.cex = Null
    /\ ~active
    /\ stored = [active |-> FALSE, selectedCEX |-> Null]

\* C12: when the controller handles a navigation made outside it (popstate,
\* or the deferred check after a push or replace) that left the query without
\* cex parameter while the controller was active, it ends inactive, the stored
\* record is {active: false, selectedCEX: null} and the chain or aggregate
\* theme is applied; when the navigation left a cex parameter x that does not
\* match the in-memory state, it ends active with selectedCEX = upper(x).
C12_ExternalNavigationReconciles ==
    LastOp \in {"check", "popstate"} =>
        /\ (~Truthy(Was.search.cex) /\ Was.active) =>
               /\ ~active
               /\ selectedCEX = Null
               /\ stored = [active |-> FALSE, selectedCEX |-> Null]
               /\ ThemeApplied(DeriveMode(Was.search))
        /\ (/\ Truthy(Was.search.cex)
            /\ (~Was.active \/ Was.selectedCEX # toUpperCase(Was.search.cex))) =>
               /\ active
               /\ selectedCEX = toUpperCase(Was.search.cex)

\* C12 witness: back/forward to a query with the registry chain and no cex
\* parameter, while the controller was active, has ended inactive with the
\* chain theme applied
C12_Witness ==
    /\ LastOp = "popstate"
    /\ Was.active
    /\ Was.search = [cex |-> Null, chain |-> bsc]
    /\ ~active
    /\ "theme-single" \in dom.classes

\* C13 (as stated): when the controller reconciles its state to the query
\* after a detected navigation, by enabling or by disabling, it pushes no
\* history entry and the query is left as the navigation left it.
C13_NoPushOnReconcile ==
    LastOp \in {"check", "popstate"} =>
        /\ Events("push") = {}
        /\ search = Was.search

\* C14: toggleCEXMode(e) performs disableCEXMode() when the controller is
\* active with selectedCEX = e, and enableCEXMode(e) in every other state.
C14_ToggleDispatch ==
    LastOp = "toggle" =>
        IF Was.active /\ Was.selectedCEX = LastArg
        THEN /\ Events("enable") = {}
             /\ log[2] = [ev |-> "disable"]
             /\ ~active
        ELSE /\ Events("disable") = {}
             /\ IF Truthy(LastArg)
                THEN /\ log[2] = [ev |-> "enable", cexName |-> LastArg]
                     /\ active
                     /\ selectedCEX = toUpperCase(LastArg)
                ELSE /\ Len(log) = 1
                     /\ active = Was.active
                     /\ selectedCEX = Was.selectedCEX

\* C14 witness: toggle(e) on a controller active with another exchange has
\* enabled e
C14_Witness ==
    /\ LastOp = "toggle"
    /\ Was.active
    /\ Was.selectedCEX = toUpperCase(foo)
    /\ LastArg = toUpperCase(gate)
    /\ active
    /\ selectedCEX = toUpperCase(gate)

\* C15 (as stated): for every non-empty exchange identifier e, toggle(e)
\* called twice in a row from the inactive state leaves the controller
\* inactive.
C15_ToggleTwiceReturns ==
    (LastOp = "toggleTwice" /\ Truthy(LastArg) /\ ~Was.active) => ~active

\* C16 (as stated): from a query with no cex parameter, enable(e) followed
\* by disable() leaves the query as it was before (no cex parameter, the same
\* chain parameter) and the theme of the scope of that query applied.
C16_RoundTripRestoresQuery ==
    (/\ LastOp = "enableThenDisable"
     /\ Truthy(LastArg)
     /\ Was.search.cex = Null) =>
        /\ search = Was.search
        /\ ThemeApplied(DeriveMode(Was.search))

\* C16 (amended): from a query with no cex parameter, enable(e) followed by
\* disable() leaves a query with no cex parameter and no chain parameter and
\* the aggregate theme applied; this is the query and the theme of before
\* enable when the query had no chain parameter then.
C16_RoundTripToAggregate ==
    (/\ LastOp = "enableThenDisable"
     /\ Truthy(LastArg)
     /\ Was.search.cex = Null) =>
        /\ search = [cex |-> Null, chain |-> Null]
        /\ ~active
        /\ ThemeApplied(Multi)
        /\ Was.search.chain = Null =>
               /\ search = Was.search
               /\ ThemeApplied(DeriveMode(Was.search))

\* C16 witness: enable(GATE) followed by disable() from the query with the
\* registry chain has ended at the query with no parameters
C16_Witness ==
    /\ LastOp = "enableThenDisable"
    /\ LastArg = toUpperCase(gate)
    /\ Was.search = [cex |-> Null, chain |-> bsc]
    /\ search = [cex |-> Null, chain |-> Null]
    /\ "theme-multi" \in dom.classes

\* C17: the keys depend on the mode getAppMode() returns and on nothing
\* else: for Single{bsc} the token key is TOKEN_BSC and the filter key
\* FILTER_BSC; for Cex{x} the token key is the aggregate key TOKEN_MULTICHAIN,
\* the same as for Multi, and the filter key is FILTER_CEX_ followed by x in
\* upper case; for Multi the keys are TOKEN_MULTICHAIN and FILTER_MULTICHAIN.
C17_KeysFromMode ==
    LET m == ResolveNow
        tokenKey == getActiveTokenKey(Turn("read", Null))
        filterKey == getActiveFilterKey(Turn("read", Null))
    IN  /\ m.type = "single" =>
               /\ m.chain = bsc
               /\ tokenKey = <<"T", "O", "K", "E", "N", "_", "B", "S", "C">>
               /\ filterKey = <<"F", "I", "L", "T", "E", "R", "_", "B", "S", "C">>
        /\ m.type = "cex" =>
               /\ tokenKey = TokenKeyOf(Multi)
               /\ tokenKey = <<"T", "O", "K", "E", "N", "_", "M", "U", "L", "T",
                               "I", "C", "H", "A", "I", "N">>
               /\ filterKey = <<"F", "I", "L", "T", "E", "R", "_", "C", "E", "X", "_">>
                                  \o toUpperCase(m.cex)
        /\ m.type = "multi" =>
               /\ tokenKey = <<"T", "O", "K", "E", "N", "_", "M", "U", "L", "T",
                               "I", "C", "H", "A", "I", "N">>
               /\ filterKey = <<"F", "I", "L", "T", "E", "R", "_", "M", "U", "L", "T",
                                "I", "C", "H", "A", "I", "N">>

\* C17 witness: the mode resolved is Cex of an exchange in no registry,
\* beside a registry chain in the query, and the token key is the aggregate key
C17_Witness ==
    /\ LastOp = "resolve"
    /\ IsCex(log[2].mode, toUpperCase(foo))
    /\ search.chain = bsc
    /\ getActiveTokenKey(Turn("read", Null)) = TOKEN_MULTICHAIN

\* C18: the filter key of the mode getAppMode() returns differs from the
\* filter key of every mode of another scope, for every chain of the chain
\* registry and every exchange identifier: the keys of Single{c}, Cex{e} and
\* Multi are pairwise distinct.
C18_FilterKeysDistinct ==
    LET modes == {Multi} \cup {Single(c) : c \in DOMAIN CONFIG_CHAINS}
                     \cup {Cex(toUpperCase(trim(e))) :
                               e \in {x \in CexValues \ {Null} : trim(x) # <<>>}}
    IN  \A m \in modes :
            m.type # ResolveNow.type => FilterKeyOf(m) # FilterKeyOf(ResolveNow)

\* C18 witness: the mode resolved is Cex{GATE} and its filter key is
\* FILTER_CEX_GATE
C18_Witness ==
    /\ LastOp = "resolve"
    /\ IsCex(log[2].mode, toUpperCase(gate))
    /\ getActiveFilterKey(Turn("read", Null))
           = <<"F", "I", "L", "T", "E", "R", "_", "C", "E", "X", "_", "G", "A", "T", "E">>

\* the setters of the three filter scopes
FilterSetters == {"setFilterMulti", "setFilterChain", "setFilterCEX"}

\* the key of the scope the call event c writes to
ScopeKey(c) ==
    IF c.op \in {"setFilterMulti", "getFilterMulti"} THEN FilterKeyOf(Multi)
    ELSE IF c.op \in {"setFilterChain", "getFilterChain"}
         THEN FilterKeyOf(Single(toLowerCase(c.scope)))
    ELSE FilterKeyOf(Cex(toUpperCase(c.scope)))

\* the record the filter records fs hold under key, empty when none
RecordAt(fs, key) == IF key \in DOMAIN fs THEN fs[key] ELSE EmptyRecord

\* C19: in each of the three scopes, a write of a partial record leaves
\* every field of the stored record that the input does not hold (also one
\* the setter does not know, such as pnl or sort) as it was, adds and removes
\* no such field, and leaves the records under every other key unchanged.
C19_MergeOnWrite ==
    LastOp \in FilterSetters =>
        LET key == ScopeKey(log[1])
            old == RecordAt(log[1].was, key)
            new == RecordAt(filters, key)
        IN  /\ key \in DOMAIN filters
            /\ DOMAIN filters = DOMAIN log[1].was \cup {key}
            /\ \A k \in DOMAIN log[1].was : k # key => filters[k] = log[1].was[k]
            /\ \A f \in DOMAIN old \cup DOMAIN new :
                   ~HasOwn(LastArg, f) =>
                       /\ f \in DOMAIN old
                       /\ f \in DOMAIN new
                       /\ new[f] = old[f]

\* C19 witness: a write of {pair} to the aggregate scope has left the dex, pnl
\* and sort fields of the stored record as they were
C19_Witness ==
    /\ LastOp = "setFilterMulti"
    /\ LastArg = [pair |-> <<gate>>]
    /\ FILTER_MULTICHAIN \in DOMAIN log[1].was
    /\ filters[FILTER_MULTICHAIN] =
           [dex |-> <<toUpperCase(foo)>>, pnl |-> [num |-> 5], sort |-> <<"Z">>,
            pair |-> <<toUpperCase(gate)>>]

\* C20: in each scope, a write of the partial record that the write before
\* it wrote leaves the stored records as they are, and a write of {pair} after
\* a write of {dex} leaves both fields stored with the values written.
C20_WriteTwiceAndInTurn ==
    [][(/\ LastOp \in FilterSetters
        /\ writes' = writes + 1
        /\ log'[1].op = log[1].op
        /\ log'[1].scope = log[1].scope) =>
           /\ log'[1].arg = log[1].arg => filters' = filters
           /\ (DOMAIN log[1].arg = {"dex"} /\ DOMAIN log'[1].arg = {"pair"}) =>
                  LET key == ScopeKey(log[1])
                  IN  /\ key \in DOMAIN filters'
                      /\ {"dex", "pair"} \subseteq DOMAIN filters'[key]
                      /\ filters'[key].dex = MapLower(ListOrEmpty(log[1].arg.dex))
                      /\ filters'[key].pair = MapUpper(ListOrEmpty(log'[1].arg.pair))]_vars

\* C20 witness: {pair} has been written to the exchange scope after {dex},
\* and both fields are stored
C20_Witness ==
    /\ LastOp = "setFilterCEX"
    /\ DOMAIN LastArg = {"pair"}
    /\ writes = MaxWrites
    /\ LET key == FILTER_CEX_ \o toUpperCase(gate)
       IN  /\ key \in DOMAIN log[1].was
           /\ DOMAIN log[1].was[key] = {"dex"}
           /\ DOMAIN filters[key] = {"dex", "pair"}
           /\ filters[key].dex = <<bsc, foo>>

\* the getters of the three filter scopes
FilterGetters == {"getFilterMulti", "getFilterChain", "getFilterCEX"}

\* the value the last turn returned
Returned == log[Len(log)].value

\* C21 (as stated): whatever record is stored, a read of a scope returns
\* the chain and dex identifiers lower-cased and the exchange and pair
\* identifiers upper-cased.
C21_ReadNormalises ==
    LastOp \in FilterGetters =>
        /\ \A f \in DOMAIN Returned \cap {"chains", "dex"} :
               Returned[f] = MapLower(Returned[f])
        /\ \A f \in DOMAIN Returned \cap {"cex", "pair"} :
               Returned[f] = MapUpper(Returned[f])

\* C22: a read of a scope that has no stored record returns the default of
\* the scope: empty selections in the aggregate and in the chain scope, and in
\* the exchange scope every chain of the chain registry, every dex of the dex
\* registry and an empty pair selection.
C22_DefaultBeforeWrite ==
    (LastOp \in FilterGetters /\ ScopeKey(log[1]) \notin DOMAIN log[1].was) =>
        IF LastOp = "getFilterMulti"
        THEN Returned = [chains |-> <<>>, cex |-> <<>>, dex |-> <<>>, pair |-> <<>>]
        ELSE IF LastOp = "getFilterChain"
        THEN Returned = [cex |-> <<>>, pair |-> <<>>, dex |-> <<>>]
        ELSE /\ Returned.chains = <<bsc>>
             /\ Returned.dex = <<flat>>
             /\ Returned.pair = <<>>

\* C22 witness: the exchange scope has been read with records stored under
\* other keys and none under its own
C22_Witness ==
    /\ LastOp = "getFilterCEX"
    /\ DOMAIN log[1].was = {FILTER_MULTICHAIN}
    /\ Returned.chains = <<bsc>>
    /\ Returned.dex = <<flat>>

\* the operations of the filter store
StoreOps ==
    FilterSetters \cup FilterGetters \cup {"setPNLFilter", "getPNLFilter"}

\* the default a read of the last turn's scope returns
ScopeDefault ==
    IF LastOp = "getFilterMulti"
    THEN [chains |-> <<>>, cex |-> <<>>, dex |-> <<>>, pair |-> <<>>]
    ELSE IF LastOp = "getFilterChain" THEN [cex |-> <<>>, pair |-> <<>>, dex |-> <<>>]
    ELSE IF LastOp = "getFilterCEX"
    THEN [chains |-> <<bsc>>, pair |-> <<>>, dex |-> <<flat>>, sort |-> <<"A">>]
    ELSE [num |-> 0]

\* C23 (as stated): with a key-value store whose get or set throws, no
\* operation of the filter store throws to its caller, and every read returns
\* the default of its scope.
C23_StoreFailureCaught ==
    (LastOp \in StoreOps /\ faults # {}) =>
        /\ Events("throw") = {}
        /\ (LastOp \in FilterGetters \cup {"getPNLFilter"} /\ "get" \in faults) =>
               /\ Events("return") # {}
               /\ Returned = ScopeDefault

\* the last turn made a transition: it got past the guard of enableCEXMode()
\* or ran disableCEXMode()
Transitioned == Events("enable") \cup Events("disable") # {}

\* the hooks the last turn called to their end
HooksCalled == {log[i].name : i \in Events("hook")}

\* the hook a fault makes throw
HookOf(fault) ==
    IF fault = "toast" THEN "toast"
    ELSE IF fault = "refresh" THEN "refreshTokensTable"
    ELSE IF fault = "render" THEN "RenderCardSignal"
    ELSE "updateSignalTheme"

\* the controller state and the stored record are those of the transition
\* the last turn made
TransitionStands ==
    /\ \A i \in Events("enable") :
           /\ active
           /\ selectedCEX = toUpperCase(log[i].cexName)
           /\ stored = [active |-> TRUE, selectedCEX |-> toUpperCase(log[i].cexName)]
    /\ \A i \in Events("disable") :
           /\ ~active
           /\ selectedCEX = Null
           /\ stored = [active |-> FALSE, selectedCEX |-> Null]

\* C24 (as stated): when a hook throws during a transition, nothing is thrown
\* to the caller, the controller state and the stored record are those of the
\* transition, and the notification and the two signal hooks, other than the
\* one that throws, are still called.
C24_HookFailureContained ==
    \A h \in {"toast", "refresh", "render", "signal"} :
        (faults = {h} /\ Transitioned) =>
            /\ Events("throw") = {}
            /\ TransitionStands
            /\ ({"toast", "RenderCardSignal", "updateSignalTheme"} \ {HookOf(h)})
                   \subseteq HooksCalled

\* C25 (as stated): a store whose read throws leaves the constructed
\* controller Inactive, and with a store whose write throws a transition
\* still pushes the rewritten query, invalidates the mode cache and throws
\* nothing to the caller.
C25_StoreFailureContained ==
    /\ (faults = {"get"} /\ log = <<>>) => (~active /\ selectedCEX = Null)
    /\ (faults = {"set"} /\ Transitioned) =>
           /\ Events("throw") = {}
           /\ Events("push") # {}
           /\ Events("invalidate") # {}

\* C26: when history.pushState() throws during a transition, the error is
\* caught: nothing is thrown to the caller, the controller state and the
\* stored record are those of the transition, and the mode cache is
\* invalidated after the catch.
C26_HistoryFailureCaught ==
    (faults = {"history"} /\ Transitioned) =>
        /\ Events("throw") = {}
        /\ TransitionStands
        /\ \E i \in Events("caught"), j \in Events("invalidate") : i < j

\* C26 witness: enable(gate) with a throwing history API has left the
\* controller Active(GATE) on the query it found
C26_Witness ==
    /\ faults = {"history"}
    /\ LastOp = "enable"
    /\ Events("caught") # {}
    /\ active
    /\ selectedCEX = toUpperCase(gate)
    /\ stored.active
    /\ search.cex = Null

\* the visual state kept in the log of the last turn
Applied == log[CHOOSE i \in Events("applied") : TRUE].dom

\* C27: a second applyThemeForMode() right after a first leaves the visual
\* state the first left, and an applyThemeForMode() right after
\* enableCEXMode() leaves the visual state as the controller left it whenever
\* the exchange enabled has a theme for the controller to apply.
C27_ApplyThemeIdempotent ==
    /\ LastOp = "applyThemeTwice" => dom = Applied
    /\ (LastOp = "enableThenApplyTheme" /\ Events("enable") # {}
           /\ selectedCEX \in DOMAIN CONFIG_CEX \cup DOMAIN CEX_THEMES) =>
           dom = Applied

\* C27 witness: the theme was applied twice in a row in a mode other than the
\* exchange mode, over the exchange theme the controller had left
C27_Witness ==
    /\ LastOp = "applyThemeTwice"
    /\ "theme-cex" \in dom.classes
    /\ {"theme-single", "theme-multi"} \cap dom.classes # {}
    /\ dom = Applied

\* the theme class, the data-cex attribute and the title are those of mode m
MarkersOf(m) ==
    LET themes == dom.classes \cap {"theme-cex", "theme-single", "theme-multi"}
    IN  IF m.type = "cex"
        THEN /\ themes = {"theme-cex"}
             /\ dom.dataCex = m.cex
             /\ dom.title = ScannerTitle(m.cex)
        ELSE IF m.type = "single"
        THEN /\ themes = {"theme-single"}
             /\ dom.dataCex = Null
             /\ dom.title = ScannerTitle(toUpperCase(CONFIG_CHAINS[m.chain].Nama_Pendek))
        ELSE /\ themes = {"theme-multi"}
             /\ dom.dataCex = Null
             /\ dom.title = SCANNER_MULTICHAIN

\* C28 (as stated): after every turn in which the controller made a
\* transition, the theme class, the data-cex attribute and the title are those
\* of the mode getAppMode() returns.
C28_MarkersFollowMode ==
    (LastOp \in {"init", "enable", "disable", "toggle", "popstate", "check"}
        /\ Transitioned) => MarkersOf(ResolveNow)

\* the list fields of the scope the last turn wrote
ScopeFields ==
    IF LastOp = "setFilterMulti" THEN {"chains", "cex", "dex", "pair"}
    ELSE IF LastOp = "setFilterChain" THEN {"cex", "pair", "dex"}
    ELSE {"chains", "pair", "dex"}

\* a list with chain and dex identifiers lower-cased, exchange and pair
\* identifiers upper-cased
Normalised(field, list) ==
    IF field \in {"chains", "dex"} THEN MapLower(list) ELSE MapUpper(list)

\* what the getter of the scope the last turn wrote returns now
ReadBack ==
    IF LastOp = "setFilterMulti" THEN getFilterMulti(Turn("get", Null)).ret
    ELSE IF LastOp = "setFilterChain"
    THEN getFilterChain(Turn("get", Null), log[1].scope).ret
    ELSE getFilterCEX(Turn("get", Null), log[1].scope).ret

\* C29 (as stated): after a setter of a scope, every list field of the scope
\* that the value supplied is stored with chain and dex identifiers lower-cased
\* and exchange and pair identifiers upper-cased, and the getter of the scope
\* returns what is stored.
C29_WriteMirrorsRead ==
    (LastOp \in FilterSetters /\ LastArg # NoValue) =>
        \A f \in DOMAIN LastArg \cap ScopeFields :
            /\ filters[ScopeKey(log[1])][f] = Normalised(f, ListOrEmpty(LastArg[f]))
            /\ ReadBack[f] = filters[ScopeKey(log[1])][f]

\* the accessors that write under the key of the active mode
KeyedWrites == {"setPNLFilter", "saveActiveFilters", "saveActiveTokens"}

\* C30 (as stated): every write of a mode-keyed accessor goes to the key of
\* the mode the query implies when the write is made.
C30_WriteUnderUrlMode ==
    LastOp \in KeyedWrites =>
        \A i \in Events("write") :
            log[i].key = IF LastOp = "saveActiveTokens"
                         THEN TokenKeyOf(Cached(DeriveMode(search)))
                         ELSE FilterKeyOf(Cached(DeriveMode(search)))

\* the controller state (a, sel) is the one query q asks for: Active(upper(x))
\* when q carries the exchange selector x, Inactive when it carries none
Agrees(q, a, sel) ==
    IF Truthy(q.cex) THEN a /\ sel = toUpperCase(q.cex) ELSE ~a

\* C31: after init(), whenever no deferred check is pending the controller
\* agrees with the query; an explicit enable, disable or toggle that made a
\* transition leaves the controller agreeing with the query it wrote, and a
\* deferred check that finds them agreeing changes neither, so that no
\* deferred check reverts a later explicit transition.
C31_ChecksConverge ==
    /\ (monitoring /\ timers = 0) => Agrees(search, active, selectedCEX)
    /\ (LastOp \in {"enable", "disable", "toggle"} /\ Transitioned) =>
           Agrees(search, active, selectedCEX)
    /\ (LastOp = "check" /\ Agrees(Was.search, Was.active, Was.selectedCEX)) =>
           /\ ~Transitioned
           /\ active = Was.active
           /\ selectedCEX = Was.selectedCEX
           /\ search = Was.search

\* C31 witness: the last pending deferred check ran after the controller had
\* become Active(GATE) on ?cex=gate, and left it so
C31_Witness ==
    /\ LastOp = "check"
    /\ timers = 0
    /\ Was.active
    /\ Was.selectedCEX = toUpperCase(gate)
    /\ Was.search = [cex |-> gate, chain |-> Null]
    /\ active
    /\ selectedCEX = toUpperCase(gate)

\* the deferred checks still to run before the page is quiescent, if nothing
\* else happens: those pending, and the one more that the transition of a
\* controller at odds with the query will schedule
ChecksToRun ==
    timers + (IF Agrees(search, active, selectedCEX) THEN 0 ELSE 1)

\* C32: every deferred check lowers the number of checks still to run, though
\* the history push of its transition schedules a further check, and it makes
\* at most one transition; so a single navigation or a single enable/disable
\* is followed by finitely many checks and at most one transition.
C32_ChecksRunOut ==
    [][log'[1].op = "check" =>
          /\ ChecksToRun' < ChecksToRun
          /\ Cardinality(Events("enable")' \cup Events("disable")') <= 1
          /\ Agrees(search, active, selectedCEX) =>
                 Events("enable")' \cup Events("disable")' = {}]_vars

\* C32 witness: a deferred check made a transition whose history push
\* scheduled the one check now pending
C32_Witness ==
    /\ LastOp = "check"
    /\ Transitioned
    /\ Events("push") # {}
    /\ timers = 1
    /\ Agrees(search, active, selectedCEX)

\* C33 (as stated): after init(), whenever no deferred check is pending the
\* query does not carry an exchange selector and a chain selector together.
C33_SelectorsExclusive ==
    (monitoring /\ timers = 0) => ~(Truthy(search.cex) /\ Truthy(search.chain))

\* what the getter of a scope returns from the filter records fs: the scope of
\* mode m
GetOfMode(fs, m) ==
    IF m.type = "cex"
    THEN getFilterCEX([Turn("get", Null) EXCEPT !.filters = fs], m.cex).ret
    ELSE IF m.type = "single"
    THEN getFilterChain([Turn("get", Null) EXCEPT !.filters = fs], m.chain).ret
    ELSE getFilterMulti([Turn("get", Null) EXCEPT !.filters = fs]).ret

\* the mode whose scope the last turn wrote: that of the setter called, or
\* the mode setPNLFilter() read
ScopeWritten ==
    IF LastOp = "setFilterMulti" THEN Cached(Multi)
    ELSE IF LastOp = "setFilterChain" THEN Cached(Single(toLowerCase(log[1].scope)))
    ELSE IF LastOp = "setFilterCEX" THEN Cached(Cex(toUpperCase(log[1].scope)))
    ELSE log[2].mode

\* the fields the last turn supplied
FieldsSupplied ==
    IF LastOp = "setPNLFilter" \/ LastArg = NoValue THEN {} ELSE DOMAIN LastArg

\* C34 (as stated): after a write to a scope, the getter of the scope returns
\* for every field the write did not supply the value it returned before the
\* write.
C34_UnsuppliedFieldsKept ==
    LastOp \in FilterSetters \cup {"setPNLFilter"} =>
        LET before == GetOfMode(log[1].was, ScopeWritten)
            after == GetOfMode(filters, ScopeWritten)
        IN  \A f \in DOMAIN before \ FieldsSupplied : after[f] = before[f]

\* the calls of the resolver, the key derivation and the filter store
ReaderOps ==
    StoreOps \cup KeyedWrites \cup {"resolve", "getActiveFilterForMode"}

\* C35: a call of resolve(), of a mode-keyed accessor or of a filter store
\* get or set leaves the query, the controller state and its stored record
\* unchanged; resolve() changes nothing but the mode cache; and in a turn that
\* is no navigation the exchange selector enters or leaves the query only
\* through enableCEXMode() or disableCEXMode().
C35_OwnershipExclusive ==
    [][/\ log'[1].op \in ReaderOps =>
              UNCHANGED <<search, active, selectedCEX, stored>>
       /\ log'[1].op = "resolve" =>
              UNCHANGED <<search, active, selectedCEX, stored, dom, filters,
                          monitoring, timers, themeTimers, started, faults>>
       /\ (log'[1].op # "navigate" /\ Truthy(search'.cex) # Truthy(search.cex)) =>
              /\ Events("enable")' \cup Events("disable")' # {}
              /\ Events("push")' # {}]_vars

\* C35 witness: the threshold was written on ?cex=gate&chain=bsc with the
\* controller Active(GATE), which it left as they were
C35_Witness ==
    /\ LastOp = "setPNLFilter"
    /\ Events("write") # {}
    /\ search = [cex |-> gate, chain |-> bsc]
    /\ active
    /\ selectedCEX = toUpperCase(gate)
    /\ stored = [active |-> TRUE, selectedCEX |-> toUpperCase(gate)]


\* the mode getAppMode() returned to the accessor in the last turn
ModeRead == log[CHOOSE i \in Events("read") : TRUE].mode

\* the threshold a value stands for: the value itself when it is a finite
\* number >= 0, the number a string starts with when that is >= 0, else 0
ThresholdOf(v) ==
    IF "num" \in DOMAIN v THEN (IF v.num >= 0 THEN v.num ELSE 0)
    ELSE IF "str" \in DOMAIN v /\ LeadingDigits(trimStart(v.str)) # <<>>
    THEN DecimalOf(LeadingDigits(trimStart(v.str)))
    ELSE IF "str" \in DOMAIN v /\ trimStart(v.str) # <<>> /\ trimStart(v.str)[1] = "+"
    THEN DecimalOf(LeadingDigits(Tail(trimStart(v.str))))
    ELSE 0

\* the threshold a value stands for when only a number counts
ThresholdOfNumber(v) == IF "num" \in DOMAIN v /\ v.num >= 0 THEN v.num ELSE 0

\* what is stored as threshold under key, a value that holds no number if none
StoredThreshold(fs, key) ==
    IF key \in DOMAIN fs /\ "pnl" \in DOMAIN fs[key] THEN fs[key].pnl ELSE NaN

\* what getPNLFilter() returns in the state reached
ThresholdNow == getPNLFilter(FilterRead("getPNLFilter", <<>>)).ret

\* C36 (as stated): getPNLFilter() returns the stored threshold when that is
\* a finite number >= 0 and 0 for any other stored value; after setPNLFilter(v)
\* it returns v when v is a finite number >= 0 and 0 otherwise.
C36_ThresholdOfNumbers ==
    /\ LastOp = "getPNLFilter" =>
           Returned = [num |-> ThresholdOfNumber(StoredThreshold(filters, FilterKeyOf(ModeRead)))]
    /\ LastOp = "setPNLFilter" => ThresholdNow = [num |-> ThresholdOfNumber(LastArg)]

\* C36: the threshold is keyed by the filter key of the mode getAppMode()
\* returns.  getPNLFilter() returns a number >= 0: the stored threshold when
\* that is a finite number >= 0, the number a stored string starts with, and 0
\* for a missing, negative or other value.  After setPNLFilter(v), with the
\* mode unchanged, getPNLFilter() returns v when v is a finite number >= 0,
\* the number >= 0 that a string v starts with, and 0 otherwise; the write
\* stores that number under the key of the mode and leaves the record under
\* every other key as it was.
C36_ThresholdRoundTrip ==
    /\ LastOp = "getPNLFilter" =>
           /\ Returned.num >= 0
           /\ Returned = [num |-> ThresholdOf(StoredThreshold(filters, FilterKeyOf(ModeRead)))]
           /\ filters = log[1].was
    /\ LastOp = "setPNLFilter" =>
           /\ ThresholdNow = [num |-> ThresholdOf(LastArg)]
           /\ StoredThreshold(filters, FilterKeyOf(ModeRead)) = [num |-> ThresholdOf(LastArg)]
           /\ \A k \in (DOMAIN filters \cup DOMAIN log[1].was) \ {FilterKeyOf(ModeRead)} :
                  /\ k \in DOMAIN filters \cap DOMAIN log[1].was
                  /\ filters[k] = log[1].was[k]

\* C36 witness: on a page in the chain mode of bsc, where the store held 5
\* under the aggregate key, setPNLFilter(7) has stored 7 under FILTER_BSC and
\* the aggregate threshold is still 5
C36_Witness ==
    /\ LastOp = "setPNLFilter"
    /\ LastArg = [num |-> 7]
    /\ ModeRead.type = "single"
    /\ StoredThreshold(filters, FILTER_ \o toUpperCase(bsc)) = [num |-> 7]
    /\ StoredThreshold(filters, FILTER_MULTICHAIN) = [num |-> 5]
    /\ ThresholdNow = [num |-> 7]


\* the places of the pool whose row is a member of exchange x ignoring letter
\* case
MemberRows(pool, x) ==
    {i \in DOMAIN pool : toLowerCase(OrEmpty(pool[i].cex)) = toLowerCase(OrEmpty(x))}

\* C37: for every exchange name x and every pool that getAllChainTokensFlat()
\* returns, getEnabledTokensPerCEX(x) returns exactly the rows of the pool
\* whose cex field equals x ignoring letter case, each once and in pool order;
\* an empty or missing name yields the empty list, and so does a page without
\* getAllChainTokensFlat.
C37_ViewIsFilteredPool ==
    LastOp = "getEnabledTokensPerCEX" =>
        LET x == LastArg
            pool == IF log[1].present THEN log[1].pool ELSE <<>>
            rows == IF Truthy(x) THEN MemberRows(pool, x) ELSE {}
        IN  /\ Len(Returned) = Cardinality(rows)
            /\ \E at \in [DOMAIN Returned -> rows] :
                   /\ \A i, j \in DOMAIN Returned : i < j => at[i] < at[j]
                   /\ \A i \in DOMAIN Returned : Returned[i] = pool[at[i]]

\* C37 witness: of the pool <<B/gate, C/FOO, A/GATE>> the view of "gate"
\* holds B and A, in that order
C37_Witness ==
    /\ LastOp = "getEnabledTokensPerCEX"
    /\ LastArg = gate
    /\ log[1].present
    /\ log[1].pool = <<[symbol |-> <<"B">>, cex |-> gate],
                       [symbol |-> <<"C">>, cex |-> toUpperCase(foo)],
                       [symbol |-> <<"A">>, cex |-> toUpperCase(gate)]>>
    /\ Returned = <<[symbol |-> <<"B">>, cex |-> gate],
                    [symbol |-> <<"A">>, cex |-> toUpperCase(gate)]>>


\* the collaborator whose absence keeps hook h from being called
AbsenceOf(h) ==
    IF h = "toast" THEN "no_toast"
    ELSE IF h = "refreshTokensTable" THEN "no_refresh"
    ELSE IF h = "RenderCardSignal" THEN "no_render"
    ELSE "no_signal"

\* C38: whichever optional collaborators are absent (theme function, table
\* reload, signal-card hooks, notification channel, cache invalidation, the
\* functions of the key-value store), enable, disable, the startup
\* reconciliation and the navigation reconciliation throw nothing and complete
\* the transition: the controller state is that of the transition, the query
\* is rewritten and pushed, the controller applies or removes the exchange
\* theme (the theme of the mode follows where the cache is invalidated), the
\* notification and the signal hooks that are present are called, and an
\* absent collaborator is not: no record is stored without the store, the
\* cache is not invalidated without the invalidation function, no theme is
\* deferred without the theme function.
C38_AbsentIsNoOp ==
    LastOp \in {"init", "enable", "disable", "check", "popstate"} =>
        /\ Events("throw") = {}
        /\ Cardinality(Events("push")) = Cardinality(Events("enable") \cup Events("disable"))
        /\ \A i \in Events("enable") :
               /\ active
               /\ selectedCEX = toUpperCase(log[i].cexName)
               /\ search = [cex |-> toLowerCase(log[i].cexName), chain |-> Null]
               /\ "theme-cex" \in dom.classes
               /\ dom.dataCex = selectedCEX
               /\ "no_set" \notin faults =>
                      stored = [active |-> TRUE, selectedCEX |-> selectedCEX]
        /\ \A i \in Events("disable") :
               /\ ~active
               /\ selectedCEX = Null
               /\ search.cex = Null
               /\ "cex-mode-active" \notin dom.classes
               /\ "no_invalidate" \notin faults =>
                      ("theme-cex" \notin dom.classes /\ dom.dataCex = Null)
               /\ "no_set" \notin faults => stored = [active |-> FALSE, selectedCEX |-> Null]
        /\ "no_set" \in faults => stored = NoRecord
        /\ Transitioned =>
               /\ (Events("invalidate") = {}) = ("no_invalidate" \in faults)
               /\ \A h \in {"toast", "RenderCardSignal", "updateSignalTheme"} :
                      (h \in HooksCalled) = (AbsenceOf(h) \notin faults)
               /\ "no_refresh" \in faults => "refreshTokensTable" \notin HooksCalled
        /\ "no_theme" \in faults => themeTimers = 0

\* C38 witness: on a page with none of the optional collaborators,
\* enable(gate) has made the controller Active(GATE) on ?cex=gate with the
\* exchange theme applied, and has called no hook and stored nothing
C38_Witness ==
    /\ faults = UNION OptionalCollaborators
    /\ LastOp = "enable"
    /\ Events("enable") # {}
    /\ Events("push") # {}
    /\ active
    /\ selectedCEX = toUpperCase(gate)
    /\ search = [cex |-> gate, chain |-> Null]
    /\ "theme-cex" \in dom.classes
    /\ HooksCalled = {}
    /\ stored = NoRecord


\* the value stored under ENABLED_CHAINS in store fs, null when none
StoredChains(fs) == IF ENABLED_CHAINS \in DOMAIN fs THEN fs[ENABLED_CHAINS] ELSE NoValue

\* what getEnabledChains() returns in the state reached
EnabledNow == getEnabledChains(ChainCall("getEnabledChains", Null)).ret

\* what isChainEnabled(k) returns in the state reached
IsEnabledNow(k) == isChainEnabled(ChainCall("isChainEnabled", k), k).ret

\* list r holds exactly the members of list l at the places in keep, in the
\* order of l
PicksFrom(r, l, keep) ==
    /\ Len(r) = Cardinality(keep)
    /\ \E at \in [DOMAIN r -> keep] :
           /\ \A i, j \in DOMAIN r : i < j => at[i] < at[j]
           /\ \A i \in DOMAIN r : r[i] = l[at[i]]

\* C39: getEnabledChains() returns [] when no array is stored and otherwise
\* exactly the stored chains that are keys of the chain registry, in stored
\* order, and writes nothing; after saveEnabledChains(L) with an array L it
\* returns exactly the lower-cased members of L that are registry keys, and
\* isChainEnabled(k) is true exactly for the keys k that are among them once
\* lower-cased, and false for an empty key; saveEnabledChains of a value that
\* is no array leaves the store unchanged.
C39_EnabledChainsOptIn ==
    /\ LastOp = "getEnabledChains" =>
           /\ filters = log[1].was
           /\ \A i \in DOMAIN Returned : Returned[i] \in DOMAIN CONFIG_CHAINS
           /\ IF isArray(StoredChains(filters))
              THEN PicksFrom(Returned, StoredChains(filters).arr,
                       {i \in DOMAIN StoredChains(filters).arr :
                           StoredChains(filters).arr[i] \in DOMAIN CONFIG_CHAINS})
              ELSE Returned = <<>>
    /\ (LastOp = "saveEnabledChains" /\ isArray(LastArg)) =>
           /\ PicksFrom(EnabledNow, MapLower(LastArg.arr),
                  {i \in DOMAIN LastArg.arr :
                      toLowerCase(LastArg.arr[i]) \in DOMAIN CONFIG_CHAINS})
           /\ \A k \in ChainKeys :
                  IsEnabledNow(k) =
                      /\ Truthy(k)
                      /\ toLowerCase(k) \in DOMAIN CONFIG_CHAINS
                      /\ \E i \in DOMAIN LastArg.arr :
                             toLowerCase(LastArg.arr[i]) = toLowerCase(k)
    /\ (LastOp = "saveEnabledChains" /\ ~isArray(LastArg)) => filters = log[1].was
    /\ LastOp = "isChainEnabled" =>
           /\ filters = log[1].was
           /\ Returned = (Truthy(LastArg) /\ \E i \in DOMAIN EnabledNow :
                                                EnabledNow[i] = toLowerCase(LastArg))

\* C39 witness: saveEnabledChains(['BSC', 'foo', 'bsc']) over a stored ['foo']
\* has left ['bsc', 'bsc'] enabled, and isChainEnabled('Bsc') is true
C39_Witness ==
    /\ LastOp = "saveEnabledChains"
    /\ LastArg = [arr |-> <<toUpperCase(bsc), foo, bsc>>]
    /\ StoredChains(log[1].was) = [arr |-> <<foo>>]
    /\ EnabledNow = <<bsc, bsc>>
    /\ IsEnabledNow(<<"B", "s", "c">>)
    /\ ~IsEnabledNow(foo)


\* the last turn stopped on a validation error
Stopped == \E i \in Events("notify") : log[i].status = "danger"

\* C40 (as stated): when the settings save handler stops on a validation
\* error, nothing has been written to the key-value store: ENABLED_CHAINS,
\* SETTING_SCANNER and CEX_API_KEYS keep their previous values.
C40_StopWritesNothing ==
    (LastOp = "saveSetting" /\ Stopped) =>
        /\ Events("write") = {}
        /\ filters = log[1].was

====
